---- MODULE Spec2Model ----
(***************************************************************************)
(* BioCalc: life-cycle carbon intensity of a solid biofuel.                *)
(*                                                                         *)
(* The engine (src/core/calculo.py) and its four phase calculators         *)
(* (src/core/fase_*.py) and the validator (src/utils/validacao.py) are     *)
(* modelled as operators over Python-style dictionaries (functions whose   *)
(* domain is the set of keys present).  Numbers are exact rationals        *)
(* [num, den] in lowest terms: the Python code computes in IEEE doubles,   *)
(* whose rounding is not modelled.                                         *)
(***************************************************************************)
EXTENDS Integers, Sequences, FiniteSets, TLC

VARIABLES
    fatores,        \* CalculadoraBioCalc.fatores: factor name -> [valor]
    biomassas,      \* CalculadoraBioCalc.biomassas: biomass id -> profile
    dados_entrada,  \* the caller's request dictionary (mutated by calculate)
    validacao,      \* outcome of Validador.validar_completo on dados_entrada
    resultado,      \* outcome of calcular_intensidade_carbono on dados_entrada
    fase_chamada,   \* a direct call of one function: [fase, dados]
    fase_retorno,   \* what that call returned
    quadros,        \* concurrent callers of calculate: caller -> its call frame
    sessao          \* st.session_state: [resultados, dados_entrada, historico]

vars == <<fatores, biomassas, dados_entrada, validacao, resultado,
          fase_chamada, fase_retorno, quadros, sessao>>

----------------------------------------------------------------------------
(* Exact rational arithmetic.                                              *)

Abs(x) == IF x < 0 THEN -x ELSE x

RECURSIVE GCD(_, _)
GCD(a, b) == IF b = 0 THEN a ELSE GCD(b, a % b)

Rat(n, d) ==
    LET g == GCD(Abs(n), Abs(d))
        s == IF d < 0 THEN -1 ELSE 1
    IN  [num |-> s * (n \div g), den |-> s * (d \div g)]

R(n) == [num |-> n, den |-> 1]

RAdd(a, b) ==
    LET g == GCD(a.den, b.den)
    IN  Rat(a.num * (b.den \div g) + b.num * (a.den \div g), a.den * (b.den \div g))

RNeg(a) == [num |-> -a.num, den |-> a.den]

RSub(a, b) == RAdd(a, RNeg(b))

RMul(a, b) ==
    LET g1 == GCD(Abs(a.num), b.den)
        g2 == GCD(Abs(b.num), a.den)
    IN  Rat((a.num \div g1) * (b.num \div g2), (a.den \div g2) * (b.den \div g1))

\* Python raises ZeroDivisionError on a zero divisor; every division of the
\* code is by a non-zero literal or guarded by a test of the divisor.
RDiv(a, b) == RMul(a, Rat(b.den, b.num))

RLt(a, b) == a.num * b.den < b.num * a.den
RLe(a, b) == a.num * b.den <= b.num * a.den
RGt(a, b) == RLt(b, a)
RGe(a, b) == RLe(b, a)
RAbs(a) == [num |-> Abs(a.num), den |-> a.den]

Zero == R(0)

----------------------------------------------------------------------------
(* Dictionaries.                                                           *)

\* dict.get(key, default)
Get(d, k, default) == IF k \in DOMAIN d THEN d[k] ELSE default

\* d[key] = value
Put(d, k, v) == [x \in DOMAIN d \cup {k} |-> IF x = k THEN v ELSE d[x]]

Vazio == [x \in {} |-> Zero]

----------------------------------------------------------------------------
(* The engine's two lookup tables.                                         *)

Entrada(v, u, f) == [valor |-> v, unidade |-> u, fonte |-> f]

\* The reference factor table written to data/fatores.csv
TabelaReferencia ==
    [ fator_eletricidade_br        |-> Entrada(R(95), "gCO2/kWh", "Grid BR"),
      fator_diesel                 |-> Entrada(R(2680), "gCO2/L", "IPCC"),
      fator_gasolina               |-> Entrada(R(2300), "gCO2/L", "IPCC"),
      fator_gas_natural            |-> Entrada(R(2020), "gCO2/m3", "IPCC"),
      fator_transporte_rodoviario  |-> Entrada(R(62), "gCO2/tkm", "Ecoinvent"),
      fator_transporte_maritimo    |-> Entrada(Rat(17, 2), "gCO2/tkm", "Ecoinvent"),
      fator_transporte_ferroviario |-> Entrada(R(22), "gCO2/tkm", "Ecoinvent"),
      fator_fertilizante_n         |-> Entrada(R(6540), "gCO2/kg", "IPCC"),
      fator_fertilizante_p         |-> Entrada(R(1200), "gCO2/kg", "IPCC"),
      fator_fertilizante_k         |-> Entrada(R(630), "gCO2/kg", "IPCC"),
      fator_pesticida              |-> Entrada(R(10000), "gCO2/kg", "Ecoinvent"),
      fator_agua                   |-> Entrada(Rat(9, 25), "gCO2/m3", "Ecoinvent BR"),
      fator_combustao              |-> Entrada(R(0), "gCO2/MJ", "Biogenico"),
      pci_pinus                    |-> Entrada(Rat(37, 2), "MJ/kg", "Literatura"),
      pci_eucalipto                |-> Entrada(Rat(91, 5), "MJ/kg", "Literatura"),
      pci_amendoim                 |-> Entrada(Rat(89, 5), "MJ/kg", "Literatura"),
      ci_fossil_referencia         |-> Entrada(R(85), "gCO2/MJ", "RenovaCalc") ]

\* The three preset biomass profiles written to data/biomasses_preset.json
BiomassasPreset ==
    [ amendoim  |-> [ nome |-> "Casca de Amendoim",
                      descricao |-> "Residuo agricola do processamento de amendoim",
                      pci |-> Rat(89, 5), unidade_pci |-> "MJ/kg",
                      densidade |-> R(600),
                      fator_biomassa_agricola |-> R(120),
                      tipo |-> "residuo_agricola" ],
      pinus     |-> [ nome |-> "Residuos de Pinus",
                      descricao |-> "Residuos florestais de Pinus sp.",
                      pci |-> Rat(37, 2), unidade_pci |-> "MJ/kg",
                      densidade |-> R(550),
                      fator_biomassa_agricola |-> R(80),
                      tipo |-> "residuo_florestal" ],
      eucalipto |-> [ nome |-> "Residuos de Eucalipto",
                      descricao |-> "Residuos florestais de Eucalyptus sp.",
                      pci |-> Rat(91, 5), unidade_pci |-> "MJ/kg",
                      densidade |-> R(580),
                      fator_biomassa_agricola |-> R(75),
                      tipo |-> "residuo_florestal" ] ]

\* self.fatores.get(nome, {}).get('valor', default)
\* Mutant: a missing factor counts as 0; the hard-coded default is dropped.
Fator_SemPadrao(f, nome, default) == Get(Get(f, nome, Vazio), "valor", Zero)

Fator(f, nome, default) == Get(Get(f, nome, Vazio), "valor", default)

----------------------------------------------------------------------------
(* The four phase calculators.                                             *)

Mil == R(1000)

\* Mutant: the mass is taken in kg, not tonnes (one division by 1000 is
\* missing, as in the docstring's formula).
TransporteAgricola_SemTonelada(fator_transporte, distancia_km, biomassa_kg) ==
    RDiv(RMul(RMul(fator_transporte, distancia_km), biomassa_kg), Mil)


\* (fator_transporte * distancia_km * biomassa_kg / 1000) / 1000
TransporteAgricola(fator_transporte, distancia_km, biomassa_kg) ==
    RDiv(RDiv(RMul(RMul(fator_transporte, distancia_km), biomassa_kg), Mil), Mil)

FaseAgricola_calcular_emissoes(f, dados) ==
    LET biomassa_kg      == Get(dados, "quantidade_biomassa_kg", Zero)
        distancia_km     == Get(dados, "distancia_transporte_km", Zero)
        fertilizantes_kg == Get(dados, "uso_fertilizantes_kg", Zero)
        pesticidas_kg    == Get(dados, "uso_pesticidas_kg", Zero)
        luc_dluc_kg_co2  == Get(dados, "luc_dluc_opcional_kg_co2", Zero)
        fator_biomassa   == Get(dados, "fator_biomassa_agricola", R(100))
        fator_fertilizante == Fator(f, "fator_fertilizante_n", R(6540))
        fator_pesticida    == Fator(f, "fator_pesticida", R(10000))
        fator_transporte   == Fator(f, "fator_transporte_rodoviario", R(62))
        emissoes_biomassa      == RDiv(RMul(biomassa_kg, fator_biomassa), Mil)
        emissoes_fertilizantes == RDiv(RMul(fertilizantes_kg, fator_fertilizante), Mil)
        emissoes_pesticidas    == RDiv(RMul(pesticidas_kg, fator_pesticida), Mil)
        emissoes_transporte    ==
            TransporteAgricola(fator_transporte, distancia_km, biomassa_kg)
        emissoes_luc           == luc_dluc_kg_co2
        emissoes_totais ==
            RAdd(RAdd(RAdd(RAdd(emissoes_biomassa, emissoes_fertilizantes),
                           emissoes_pesticidas), emissoes_transporte), emissoes_luc)
    IN  [ emissoes_kg_co2 |-> emissoes_totais,
          detalhamento |-> [ biomassa      |-> emissoes_biomassa,
                             fertilizantes |-> emissoes_fertilizantes,
                             pesticidas    |-> emissoes_pesticidas,
                             transporte    |-> emissoes_transporte,
                             luc_dluc      |-> emissoes_luc ] ]

\* Mutant: the diesel factor (gCO2/L) is used per MJ, without the division by
\* the energy density.
FatorEnergiaTermica_SemDensidade(f) == Fator(f, "fator_diesel", R(2680))


\* self.fatores.get('fator_diesel', {}).get('valor', 2680.0) / 38.0
FatorEnergiaTermica(f) == RDiv(Fator(f, "fator_diesel", R(2680)), R(38))

\* Mutant: an absent electricity input counts as 1 kWh.
FaseIndustrial_calcular_emissoes_PadraoUm(f, dados) ==
    LET energia_eletrica == Get(dados, "energia_eletrica_kwh", R(1))
        energia_termica  == Get(dados, "energia_termica_mj", Zero)
        agua             == Get(dados, "agua_m3", Zero)
        fator_eletricidade    == Fator(f, "fator_eletricidade_br", R(95))
        fator_energia_termica == FatorEnergiaTermica(f)
        fator_agua            == Fator(f, "fator_agua", Rat(9, 25))
        emissoes_eletricidade == RDiv(RMul(energia_eletrica, fator_eletricidade), Mil)
        emissoes_termica      == RDiv(RMul(energia_termica, fator_energia_termica), Mil)
        emissoes_agua         == RDiv(RMul(agua, fator_agua), Mil)
        emissoes_totais ==
            RAdd(RAdd(emissoes_eletricidade, emissoes_termica), emissoes_agua)
    IN  [ emissoes_kg_co2 |-> emissoes_totais,
          detalhamento |-> [ energia_eletrica |-> emissoes_eletricidade,
                             energia_termica  |-> emissoes_termica,
                             agua             |-> emissoes_agua ] ]

FaseIndustrial_calcular_emissoes(f, dados) ==
    LET energia_eletrica == Get(dados, "energia_eletrica_kwh", Zero)
        energia_termica  == Get(dados, "energia_termica_mj", Zero)
        agua             == Get(dados, "agua_m3", Zero)
        fator_eletricidade    == Fator(f, "fator_eletricidade_br", R(95))
        fator_energia_termica == FatorEnergiaTermica(f)
        fator_agua            == Fator(f, "fator_agua", Rat(9, 25))
        emissoes_eletricidade == RDiv(RMul(energia_eletrica, fator_eletricidade), Mil)
        emissoes_termica      == RDiv(RMul(energia_termica, fator_energia_termica), Mil)
        emissoes_agua         == RDiv(RMul(agua, fator_agua), Mil)
        emissoes_totais ==
            RAdd(RAdd(emissoes_eletricidade, emissoes_termica), emissoes_agua)
    IN  [ emissoes_kg_co2 |-> emissoes_totais,
          detalhamento |-> [ energia_eletrica |-> emissoes_eletricidade,
                             energia_termica  |-> emissoes_termica,
                             agua             |-> emissoes_agua ] ]

\* Mutant: the mode is ignored and the road factor always used.
FatorModal_SempreRodoviario(f, modal) ==
    Fator(f, "fator_transporte_rodoviario", R(62))

\* Mutant: the maritime and road entries of the mapping are swapped.
FatorModal_Trocado(f, modal) ==
    LET fatores_modal ==
            [ maritimo    |-> Fator(f, "fator_transporte_rodoviario", R(62)),
              rodoviario  |-> Fator(f, "fator_transporte_maritimo", Rat(17, 2)),
              ferroviario |-> Fator(f, "fator_transporte_ferroviario", R(22)) ]
    IN  Get(fatores_modal, modal, R(62))


\* fatores_modal.get(modal, 62.0)
FatorModal(f, modal) ==
    LET fatores_modal ==
            [ rodoviario  |-> Fator(f, "fator_transporte_rodoviario", R(62)),
              maritimo    |-> Fator(f, "fator_transporte_maritimo", Rat(17, 2)),
              ferroviario |-> Fator(f, "fator_transporte_ferroviario", R(22)) ]
    IN  Get(fatores_modal, modal, R(62))

FaseDistribuicao_calcular_emissoes(f, dados) ==
    LET modal       == Get(dados, "modal_transporte", "rodoviario")
        distancia   == Get(dados, "distancia_km", Zero)
        biomassa_kg == Get(dados, "quantidade_biomassa_kg", Zero)
        fator_transporte == FatorModal(f, modal)
        emissoes_transporte ==
            RDiv(RDiv(RMul(RMul(fator_transporte, distancia), biomassa_kg), Mil), Mil)
    IN  [ emissoes_kg_co2 |-> emissoes_transporte,
          detalhamento |-> [ transporte   |-> emissoes_transporte,
                             modal        |-> modal,
                             distancia_km |-> distancia ] ]

\* Mutant: biogenic emissions as quantity * PCI * 0.1 kg CO2/MJ.
EmissoesBiogenicas_PorEnergia(biomassa_kg, pci) ==
    RMul(RMul(biomassa_kg, pci), Rat(1, 10))

\* Mutant: twice the literature constant.
EmissoesBiogenicas_Dobro(biomassa_kg, pci) ==
    RMul(biomassa_kg, Rat(92, 25))

\* emissoes_biogenicas = biomassa_kg * 1.84; the PCI in scope is not used.
EmissoesBiogenicas(biomassa_kg, pci) ==
    RMul(biomassa_kg, Rat(46, 25))

FaseUso_calcular_emissoes(f, dados) ==
    LET biomassa_kg    == Get(dados, "quantidade_biomassa_kg", Zero)
        pci            == Get(dados, "pci", R(18))
        tipo_combustao == Get(dados, "tipo_combustao", "caldeira")
        fator_combustao    == Fator(f, "fator_combustao", Zero)
        emissoes_combustao == RDiv(RMul(RMul(biomassa_kg, pci), fator_combustao), Mil)
        emissoes_biogenicas == EmissoesBiogenicas(biomassa_kg, pci)
    IN  [ emissoes_kg_co2 |-> emissoes_combustao,
          detalhamento |-> [ combustao         |-> emissoes_combustao,
                             tipo_combustao    |-> tipo_combustao,
                             energia_gerada_mj |-> RMul(biomassa_kg, pci) ],
          emissoes_biogenicas_kg_co2 |-> emissoes_biogenicas ]

----------------------------------------------------------------------------
(* CalculadoraBioCalc.                                                     *)

Ok(v) == [tipo |-> "ok", valor |-> v]
Erro(excecao, mensagem) == [tipo |-> "erro", excecao |-> excecao, mensagem |-> mensagem]
Nenhum == [tipo |-> "nenhum"]

\* Mutant: an unknown id is reported with the message of a missing id.
get_biomassa_info_MensagemDeAusente(bs, nome_biomassa) ==
    IF nome_biomassa \notin DOMAIN bs
    THEN Erro("ValueError", "Nome da biomassa nao fornecido")
    ELSE Ok(bs[nome_biomassa])

get_biomassa_info(bs, nome_biomassa) ==
    IF nome_biomassa \notin DOMAIN bs
    THEN Erro("ValueError", "Biomassa nao encontrada")
    ELSE Ok(bs[nome_biomassa])

\* Mutant: the quantity is injected into the catalog entry as well.
PrepararDados_EscreveNoCatalogo(dados, biomassa_info) ==
    LET dados_agricola_0 == Get(dados, "fase_agricola", Vazio)
        dados_agricola   == Put(dados_agricola_0, "fator_biomassa_agricola",
                                biomassa_info.fator_biomassa_agricola)
        dados_industrial == Get(dados, "fase_industrial", Vazio)
        quantidade       == Get(dados_agricola, "quantidade_biomassa_kg", Zero)
        dados_distribuicao == Put(Get(dados, "fase_distribuicao", Vazio),
                                  "quantidade_biomassa_kg", quantidade)
        dados_uso == Put(Put(Get(dados, "fase_uso", Vazio),
                             "quantidade_biomassa_kg", quantidade),
                         "pci", biomassa_info.pci)
    IN  [ agricola     |-> dados_agricola,
          industrial   |-> dados_industrial,
          distribuicao |-> dados_distribuicao,
          uso          |-> dados_uso,
          biomassa_info |-> Put(biomassa_info, "quantidade_biomassa_kg", quantidade),
          entrada      |->
              [k \in DOMAIN dados |->
                  CASE k = "fase_agricola"     -> dados_agricola
                    [] k = "fase_distribuicao" -> dados_distribuicao
                    [] k = "fase_uso"          -> dados_uso
                    [] OTHER                   -> dados[k]] ]

\* Mutant: a field the caller supplied is kept (setdefault, not assignment).
PrepararDados_MantemDoChamador(dados, biomassa_info) ==
    LET dados_agricola_0 == Get(dados, "fase_agricola", Vazio)
        dados_agricola   ==
            IF "fator_biomassa_agricola" \in DOMAIN dados_agricola_0
            THEN dados_agricola_0
            ELSE Put(dados_agricola_0, "fator_biomassa_agricola",
                     biomassa_info.fator_biomassa_agricola)
        dados_industrial == Get(dados, "fase_industrial", Vazio)
        quantidade       == Get(dados_agricola, "quantidade_biomassa_kg", Zero)
        dados_distribuicao_0 == Get(dados, "fase_distribuicao", Vazio)
        dados_distribuicao ==
            IF "quantidade_biomassa_kg" \in DOMAIN dados_distribuicao_0
            THEN dados_distribuicao_0
            ELSE Put(dados_distribuicao_0, "quantidade_biomassa_kg", quantidade)
        dados_uso_0 == Get(dados, "fase_uso", Vazio)
        dados_uso_1 == IF "quantidade_biomassa_kg" \in DOMAIN dados_uso_0
                       THEN dados_uso_0
                       ELSE Put(dados_uso_0, "quantidade_biomassa_kg", quantidade)
        dados_uso   == IF "pci" \in DOMAIN dados_uso_1
                       THEN dados_uso_1
                       ELSE Put(dados_uso_1, "pci", biomassa_info.pci)
    IN  [ agricola     |-> dados_agricola,
          industrial   |-> dados_industrial,
          distribuicao |-> dados_distribuicao,
          uso          |-> dados_uso,
          biomassa_info |-> biomassa_info,
          entrada      |->
              [k \in DOMAIN dados |->
                  CASE k = "fase_agricola"     -> dados_agricola
                    [] k = "fase_distribuicao" -> dados_distribuicao
                    [] k = "fase_uso"          -> dados_uso
                    [] OTHER                   -> dados[k]] ]

\* Mutant: the quantity is added to the one the distribution record holds.
PrepararDados_SomaQuantidade(dados, biomassa_info) ==
    LET dados_agricola_0 == Get(dados, "fase_agricola", Vazio)
        dados_agricola   == Put(dados_agricola_0, "fator_biomassa_agricola",
                                biomassa_info.fator_biomassa_agricola)
        dados_industrial == Get(dados, "fase_industrial", Vazio)
        quantidade       == Get(dados_agricola, "quantidade_biomassa_kg", Zero)
        dados_distribuicao ==
            Put(Get(dados, "fase_distribuicao", Vazio), "quantidade_biomassa_kg",
                RAdd(Get(Get(dados, "fase_distribuicao", Vazio),
                         "quantidade_biomassa_kg", Zero), quantidade))
        dados_uso == Put(Put(Get(dados, "fase_uso", Vazio),
                             "quantidade_biomassa_kg", quantidade),
                         "pci", biomassa_info.pci)
    IN  [ agricola     |-> dados_agricola,
          industrial   |-> dados_industrial,
          distribuicao |-> dados_distribuicao,
          uso          |-> dados_uso,
          biomassa_info |-> biomassa_info,
          entrada      |->
              [k \in DOMAIN dados |->
                  CASE k = "fase_agricola"     -> dados_agricola
                    [] k = "fase_distribuicao" -> dados_distribuicao
                    [] k = "fase_uso"          -> dados_uso
                    [] OTHER                   -> dados[k]] ]

\* "Preparar dados para cada fase": the phase records handed to the phase
\* calculators, and the request as the injections leave it.  A phase record
\* that the request holds is patched in place; an absent one is a fresh {}
\* that the request never sees.  biomassa_info is the catalog's own entry
\* (get_biomassa_info returns it by reference); it is read, never written.
PrepararDados(dados, biomassa_info) ==
    LET dados_agricola_0 == Get(dados, "fase_agricola", Vazio)
        dados_agricola   == Put(dados_agricola_0, "fator_biomassa_agricola",
                                biomassa_info.fator_biomassa_agricola)
        dados_industrial == Get(dados, "fase_industrial", Vazio)
        quantidade       == Get(dados_agricola, "quantidade_biomassa_kg", Zero)
        dados_distribuicao == Put(Get(dados, "fase_distribuicao", Vazio),
                                  "quantidade_biomassa_kg", quantidade)
        dados_uso == Put(Put(Get(dados, "fase_uso", Vazio),
                             "quantidade_biomassa_kg", quantidade),
                         "pci", biomassa_info.pci)
    IN  [ agricola     |-> dados_agricola,
          industrial   |-> dados_industrial,
          distribuicao |-> dados_distribuicao,
          uso          |-> dados_uso,
          biomassa_info |-> biomassa_info,
          entrada      |->
              [k \in DOMAIN dados |->
                  CASE k = "fase_agricola"     -> dados_agricola
                    [] k = "fase_distribuicao" -> dados_distribuicao
                    [] k = "fase_uso"          -> dados_uso
                    [] OTHER                   -> dados[k]] ]

\* Mutant: the Use phase is booked as a credit (subtracted from the total).
EmissoesTotais_UsoComoCredito(ra, ri, rd, ru) ==
    RSub(RAdd(RAdd(ra.emissoes_kg_co2, ri.emissoes_kg_co2), rd.emissoes_kg_co2),
         ru.emissoes_kg_co2)


\* Mutant: the biogenic emissions of the Use phase are added to the total.
EmissoesTotais_ComBiogenicas(ra, ri, rd, ru) ==
    RAdd(RAdd(RAdd(RAdd(ra.emissoes_kg_co2, ri.emissoes_kg_co2), rd.emissoes_kg_co2),
              ru.emissoes_kg_co2), ru.emissoes_biogenicas_kg_co2)


EmissoesTotais(ra, ri, rd, ru) ==
    RAdd(RAdd(RAdd(ra.emissoes_kg_co2, ri.emissoes_kg_co2), rd.emissoes_kg_co2),
         ru.emissoes_kg_co2)

\* Mutant: the energy uses the Use phase's default PCI, not the profile's.
EnergiaTotal_PciPadrao(dados_uso, biomassa_info) ==
    RMul(dados_uso.quantidade_biomassa_kg, R(18))


EnergiaTotal(dados_uso, biomassa_info) ==
    RMul(dados_uso.quantidade_biomassa_kg, biomassa_info.pci)

IntensidadeCarbono(emissoes_totais, energia_total_mj) ==
    IF RGt(energia_total_mj, Zero)
    THEN RDiv(RMul(emissoes_totais, Mil), energia_total_mj)
    ELSE Zero

CiFossil(f) == Fator(f, "ci_fossil_referencia", R(85))

\* Mutant: the shares are left as fractions (the factor 100 is forgotten).
Percentuais_Fracao(ra, ri, rd, ru, emissoes_totais) ==
    IF RGt(emissoes_totais, Zero)
    THEN [ agricola     |-> RDiv(ra.emissoes_kg_co2, emissoes_totais),
           industrial   |-> RDiv(ri.emissoes_kg_co2, emissoes_totais),
           distribuicao |-> RDiv(rd.emissoes_kg_co2, emissoes_totais),
           uso          |-> RDiv(ru.emissoes_kg_co2, emissoes_totais) ]
    ELSE [ agricola |-> Zero, industrial |-> Zero, distribuicao |-> Zero, uso |-> Zero ]


Percentuais(ra, ri, rd, ru, emissoes_totais) ==
    IF RGt(emissoes_totais, Zero)
    THEN [ agricola     |-> RMul(RDiv(ra.emissoes_kg_co2, emissoes_totais), R(100)),
           industrial   |-> RMul(RDiv(ri.emissoes_kg_co2, emissoes_totais), R(100)),
           distribuicao |-> RMul(RDiv(rd.emissoes_kg_co2, emissoes_totais), R(100)),
           uso          |-> RMul(RDiv(ru.emissoes_kg_co2, emissoes_totais), R(100)) ]
    ELSE [ agricola |-> Zero, industrial |-> Zero, distribuicao |-> Zero, uso |-> Zero ]

\* Mutant: the reduction is left as a fraction (the factor 100 is forgotten).
ReducaoPercentual_Fracao(neea, ci_fossil) ==
    IF RGt(ci_fossil, Zero)
    THEN RDiv(neea, ci_fossil)
    ELSE Zero


ReducaoPercentual(neea, ci_fossil) ==
    IF RGt(ci_fossil, Zero)
    THEN RMul(RDiv(neea, ci_fossil), R(100))
    ELSE Zero

\* Lines 130-209: the AggregateResult built from the four phase results.
AgregarResultados(f, nome_biomassa, biomassa_info, dados_uso, resultado_agricola, resultado_industrial, resultado_distribuicao, resultado_uso) ==
    LET emissoes_totais  == EmissoesTotais(resultado_agricola, resultado_industrial,
                                           resultado_distribuicao, resultado_uso)
        energia_total_mj == EnergiaTotal(dados_uso, biomassa_info)
        intensidade_carbono == IntensidadeCarbono(emissoes_totais, energia_total_mj)
        ci_fossil == CiFossil(f)
        neea      == RSub(ci_fossil, intensidade_carbono)
        percentuais == Percentuais(resultado_agricola, resultado_industrial,
                                   resultado_distribuicao, resultado_uso,
                                   emissoes_totais)
        reducao_percentual == ReducaoPercentual(neea, ci_fossil)
    IN  [ biomassa      |-> nome_biomassa,
          biomassa_info |-> biomassa_info,
          resultados_por_fase |->
            [ agricola |->
                [ emissoes_kg_co2 |-> resultado_agricola.emissoes_kg_co2,
                  percentual      |-> percentuais.agricola,
                  detalhamento    |-> resultado_agricola.detalhamento ],
              industrial |->
                [ emissoes_kg_co2 |-> resultado_industrial.emissoes_kg_co2,
                  percentual      |-> percentuais.industrial,
                  detalhamento    |-> resultado_industrial.detalhamento ],
              distribuicao |->
                [ emissoes_kg_co2 |-> resultado_distribuicao.emissoes_kg_co2,
                  percentual      |-> percentuais.distribuicao,
                  detalhamento    |-> resultado_distribuicao.detalhamento ],
              uso |->
                [ emissoes_kg_co2 |-> resultado_uso.emissoes_kg_co2,
                  percentual      |-> percentuais.uso,
                  detalhamento    |-> resultado_uso.detalhamento,
                  emissoes_biogenicas_kg_co2 |->
                      Get(resultado_uso, "emissoes_biogenicas_kg_co2", Zero) ] ],
          emissoes_totais_kg_co2       |-> emissoes_totais,
          energia_total_mj             |-> energia_total_mj,
          intensidade_carbono_g_co2_mj |-> intensidade_carbono,
          neea                         |-> neea,
          comparacao_fossil |->
            [ ci_fossil_referencia_g_co2_mj |-> ci_fossil,
              ci_biocombustivel_g_co2_mj    |-> intensidade_carbono,
              reducao_g_co2_mj              |-> neea,
              reducao_percentual            |-> reducao_percentual ] ]

\* Mutant: the agricultural record is prepared and its calculator invoked
\* before the failure is raised.
Falha_DepoisDePreparar(erro, dados, bs) ==
    [ retorno |-> erro,
      entrada |-> IF "fase_agricola" \in DOMAIN dados
                  THEN Put(dados, "fase_agricola",
                           Put(dados["fase_agricola"], "fator_biomassa_agricola", R(100)))
                  ELSE dados,
      biomassas |-> bs,
      fases_invocadas |-> <<"agricola">> ]

\* raise ValueError(...): the call ends before the preparation, with the
\* request and the catalog as they were and no phase calculator invoked.
Falha(erro, dados, bs) ==
    [ retorno |-> erro, entrada |-> dados, biomassas |-> bs,
      fases_invocadas |-> <<>> ]

\* Returns [retorno, entrada, biomassas, fases_invocadas]: what the call
\* returns or raises, the caller's request dictionary and the catalog as the
\* call leaves them, and the phase calculators it invoked, in order.
calcular_intensidade_carbono(f, bs, dados) ==
    IF "biomassa" \notin DOMAIN dados \/ dados["biomassa"] = ""
    THEN Falha(Erro("ValueError", "Nome da biomassa nao fornecido"), dados, bs)
    ELSE
    LET nome_biomassa == dados["biomassa"]
        info          == get_biomassa_info(bs, nome_biomassa)
    IN  IF info.tipo = "erro"
        THEN Falha(info, dados, bs)
        ELSE
        LET biomassa_info == info.valor
            prep == PrepararDados(dados, biomassa_info)
            resultado_agricola     == FaseAgricola_calcular_emissoes(f, prep.agricola)
            resultado_industrial   == FaseIndustrial_calcular_emissoes(f, prep.industrial)
            resultado_distribuicao == FaseDistribuicao_calcular_emissoes(f, prep.distribuicao)
            resultado_uso          == FaseUso_calcular_emissoes(f, prep.uso)
        IN  [ retorno |-> Ok(AgregarResultados(f, nome_biomassa, biomassa_info, prep.uso,
                                               resultado_agricola, resultado_industrial,
                                               resultado_distribuicao, resultado_uso)),
              entrada   |-> prep.entrada,
              biomassas |-> [bs EXCEPT ![nome_biomassa] = prep.biomassa_info],
              fases_invocadas |-> <<"agricola", "industrial", "distribuicao", "uso">> ]

----------------------------------------------------------------------------
(* Validador.  A verdict is <<valido, erros>>; an error message is a       *)
(* record naming the field and the text (and the value, where the message  *)
(* prints it).                                                             *)

Msg(campo, texto) == [campo |-> campo, texto |-> texto]

validar_positivo(valor, nome_campo) ==
    IF RLt(valor, Zero)
    THEN <<FALSE, [campo |-> nome_campo, texto |-> "deve ser um valor positivo",
                   valor |-> valor]>>
    ELSE <<TRUE, Msg(nome_campo, "")>>

\* Mutant: the upper limit is not checked.
PositivoComMaximo_SemMaximo(valor, nome_campo, maximo, muito_alto) ==
    LET v == validar_positivo(valor, nome_campo)
    IN  IF ~v[1] THEN <<v[2]>> ELSE <<>>

\* valido, msg = validar_positivo(...); if not valido: append(msg)
\* elif valor > maximo: append(muito_alto)
PositivoComMaximo(valor, nome_campo, maximo, muito_alto) ==
    LET v == validar_positivo(valor, nome_campo)
    IN  IF ~v[1] THEN <<v[2]>>
        ELSE IF RGt(valor, R(maximo)) THEN <<Msg(nome_campo, muito_alto)>>
        ELSE <<>>

\* Mutant: a quantity of zero is accepted (< where the code has <=).
ValidarQuantidade_AceitaZero(biomassa) ==
    IF RLt(biomassa, Zero)
    THEN <<Msg("Quantidade de biomassa", "deve ser maior que zero")>>
    ELSE IF RGt(biomassa, R(1000000))
    THEN <<Msg("Quantidade de biomassa", "muito alta (maximo: 1.000.000 kg)")>>
    ELSE <<>>


\* Quantidade de biomassa (obrigatorio, > 0, <= 1.000.000 kg)
ValidarQuantidade(biomassa) ==
    IF RLe(biomassa, Zero)
    THEN <<Msg("Quantidade de biomassa", "deve ser maior que zero")>>
    ELSE IF RGt(biomassa, R(1000000))
    THEN <<Msg("Quantidade de biomassa", "muito alta (maximo: 1.000.000 kg)")>>
    ELSE <<>>

\* Mutant: an absent quantity counts as 1 kg.
validar_fase_agricola_QuantidadePadraoUm(dados) ==
    LET biomassa == Get(dados, "quantidade_biomassa_kg", R(1))
        e1 == ValidarQuantidade(biomassa)
        e2 == PositivoComMaximo(Get(dados, "distancia_transporte_km", Zero),
                  "Distancia de transporte", 1000,
                  "AVISO: muito alta para fase agricola (>1000 km)")
        e3 == PositivoComMaximo(Get(dados, "uso_fertilizantes_kg", Zero),
                  "Uso de fertilizantes", 100000,
                  "muito alto (maximo razoavel: 100.000 kg)")
        e4 == PositivoComMaximo(Get(dados, "uso_pesticidas_kg", Zero),
                  "Uso de pesticidas", 10000,
                  "muito alto (maximo razoavel: 10.000 kg)")
        v5 == validar_positivo(Get(dados, "luc_dluc_opcional_kg_co2", Zero), "LUC/dLUC")
        e5 == IF ~v5[1] THEN <<v5[2]>> ELSE <<>>
        erros == e1 \o e2 \o e3 \o e4 \o e5
    IN  <<Len(erros) = 0, erros>>

validar_fase_agricola(dados) ==
    LET biomassa == Get(dados, "quantidade_biomassa_kg", Zero)
        e1 == ValidarQuantidade(biomassa)
        e2 == PositivoComMaximo(Get(dados, "distancia_transporte_km", Zero),
                  "Distancia de transporte", 1000,
                  "AVISO: muito alta para fase agricola (>1000 km)")
        e3 == PositivoComMaximo(Get(dados, "uso_fertilizantes_kg", Zero),
                  "Uso de fertilizantes", 100000,
                  "muito alto (maximo razoavel: 100.000 kg)")
        e4 == PositivoComMaximo(Get(dados, "uso_pesticidas_kg", Zero),
                  "Uso de pesticidas", 10000,
                  "muito alto (maximo razoavel: 10.000 kg)")
        v5 == validar_positivo(Get(dados, "luc_dluc_opcional_kg_co2", Zero), "LUC/dLUC")
        e5 == IF ~v5[1] THEN <<v5[2]>> ELSE <<>>
        erros == e1 \o e2 \o e3 \o e4 \o e5
    IN  <<Len(erros) = 0, erros>>

validar_fase_industrial(dados) ==
    LET e1 == PositivoComMaximo(Get(dados, "energia_eletrica_kwh", Zero),
                  "Energia eletrica", 1000000,
                  "muito alto (maximo razoavel: 1.000.000 kWh)")
        e2 == PositivoComMaximo(Get(dados, "energia_termica_mj", Zero),
                  "Energia termica", 10000000,
                  "muito alto (maximo razoavel: 10.000.000 MJ)")
        e3 == PositivoComMaximo(Get(dados, "agua_m3", Zero),
                  "Consumo de agua", 100000,
                  "muito alto (maximo razoavel: 100.000 m3)")
        erros == e1 \o e2 \o e3
    IN  <<Len(erros) = 0, erros>>

\* Mutant: the mode is not checked.
validar_fase_distribuicao_QualquerModal(dados) ==
    LET erros == PositivoComMaximo(Get(dados, "distancia_km", Zero),
                     "Distancia de distribuicao", 50000,
                     "muito alta (maximo razoavel: 50.000 km)")
    IN  <<Len(erros) = 0, erros>>

validar_fase_distribuicao(dados) ==
    LET modal == Get(dados, "modal_transporte", "")
        modais_validos == {"rodoviario", "maritimo", "ferroviario"}
        e1 == IF modal \notin modais_validos
              THEN <<Msg("Modal de transporte", "invalido")>>
              ELSE <<>>
        e2 == PositivoComMaximo(Get(dados, "distancia_km", Zero),
                  "Distancia de distribuicao", 50000,
                  "muito alta (maximo razoavel: 50.000 km)")
        erros == e1 \o e2
    IN  <<Len(erros) = 0, erros>>

validar_fase_uso(dados) ==
    LET tipo == Get(dados, "tipo_combustao", "caldeira")
        tipos_validos == {"caldeira", "fornalha", "outro"}
        erros == IF tipo \notin tipos_validos
                 THEN <<Msg("Tipo de combustao", "invalido")>>
                 ELSE <<>>
    IN  <<Len(erros) = 0, erros>>

\* Mutant: stops at the first part that fails and reports only that part.
validar_completo_PrimeiroErro(dados) ==
    LET biomassa == Get(dados, "biomassa", "")
        va == validar_fase_agricola(Get(dados, "fase_agricola", Vazio))
        vi == validar_fase_industrial(Get(dados, "fase_industrial", Vazio))
        vd == validar_fase_distribuicao(Get(dados, "fase_distribuicao", Vazio))
        vu == validar_fase_uso(Get(dados, "fase_uso", Vazio))
    IN  IF biomassa \notin {"amendoim", "pinus", "eucalipto"}
        THEN <<FALSE, "biomassa" :> <<Msg("Biomassa", "invalida")>> >>
        ELSE IF ~va[1] THEN <<FALSE, "fase_agricola" :> va[2]>>
        ELSE IF ~vi[1] THEN <<FALSE, "fase_industrial" :> vi[2]>>
        ELSE IF ~vd[1] THEN <<FALSE, "fase_distribuicao" :> vd[2]>>
        ELSE IF ~vu[1] THEN <<FALSE, "fase_uso" :> vu[2]>>
        ELSE <<TRUE, Vazio>>

validar_completo(dados) ==
    LET biomassa == Get(dados, "biomassa", "")
        biomassas_validas == {"amendoim", "pinus", "eucalipto"}
        va == validar_fase_agricola(Get(dados, "fase_agricola", Vazio))
        vi == validar_fase_industrial(Get(dados, "fase_industrial", Vazio))
        vd == validar_fase_distribuicao(Get(dados, "fase_distribuicao", Vazio))
        vu == validar_fase_uso(Get(dados, "fase_uso", Vazio))
        chaves == (IF biomassa \notin biomassas_validas THEN {"biomassa"} ELSE {})
                  \cup (IF ~va[1] THEN {"fase_agricola"} ELSE {})
                  \cup (IF ~vi[1] THEN {"fase_industrial"} ELSE {})
                  \cup (IF ~vd[1] THEN {"fase_distribuicao"} ELSE {})
                  \cup (IF ~vu[1] THEN {"fase_uso"} ELSE {})
        erros_por_fase ==
            [k \in chaves |->
                CASE k = "biomassa"          -> <<Msg("Biomassa", "invalida")>>
                  [] k = "fase_agricola"     -> va[2]
                  [] k = "fase_industrial"   -> vi[2]
                  [] k = "fase_distribuicao" -> vd[2]
                  [] k = "fase_uso"          -> vu[2]]
    IN  <<chaves = {}, erros_por_fase>>

----------------------------------------------------------------------------
(* Inputs.                                                                 *)

\* Largest biomass quantity of a request, in tonnes.
MaxToneladas == 2

\* {{}} and the one-key dictionaries {k: v}, v in S
Opcional(k, S) == {Vazio} \cup {(k :> v) : v \in S}
Campo(k, S) == {(k :> v) : v \in S}
Junta(A, B) == {a @@ b : a \in A, b \in B}

Quantidades == {R(1000 * k) : k \in 0..MaxToneladas}

\* Factor tables an engine may be constructed with: the reference table, the
\* empty table (every lookup falls back to its default), a table with a counted
\* combustion factor, another rail factor and a zero fossil reference, and a
\* partial table with a negative factor, a maritime factor above the road
\* factor and a negative fossil reference.
TabelaVazia == Vazio
TabelaAlternativa ==
    [TabelaReferencia EXCEPT !["fator_combustao"].valor = R(10),
                             !["fator_transporte_ferroviario"].valor = R(25),
                             !["ci_fossil_referencia"].valor = R(0)]
TabelaNegativa ==
    [ fator_eletricidade_br     |-> Entrada(R(-95), "gCO2/kWh", "credito"),
      fator_transporte_maritimo |-> Entrada(R(70), "gCO2/tkm", "teste"),
      ci_fossil_referencia      |-> Entrada(R(-10), "gCO2/MJ", "teste") ]
Tabelas == {TabelaReferencia, TabelaVazia, TabelaAlternativa, TabelaNegativa}

\* Requests: each phase record absent or built from the field values below.
InsumosZero == [ distancia_transporte_km |-> Zero, uso_fertilizantes_kg |-> Zero,
                 uso_pesticidas_kg |-> Zero ]
InsumosBasico == [ distancia_transporte_km |-> R(50), uso_fertilizantes_kg |-> R(100),
                   uso_pesticidas_kg |-> R(10) ]

PedidosAgricola ==
    Junta(Opcional("quantidade_biomassa_kg", Quantidades),
          { Vazio, InsumosZero, InsumosBasico,
            InsumosBasico @@ [luc_dluc_opcional_kg_co2 |-> R(5000)],
            InsumosZero @@ [luc_dluc_opcional_kg_co2 |-> R(-500)] })

PedidosIndustrial ==
    { [energia_eletrica_kwh |-> R(1000), energia_termica_mj |-> Zero, agua_m3 |-> Zero],
      [energia_eletrica_kwh |-> R(500), energia_termica_mj |-> R(1900),
       agua_m3 |-> R(5000)] }

PedidosDistribuicao ==
    { [modal_transporte |-> "rodoviario", distancia_km |-> R(200)],
      [modal_transporte |-> "maritimo", distancia_km |-> R(200)],
      [modal_transporte |-> "aereo", distancia_km |-> R(200)] }

PedidosUso == { [tipo_combustao |-> "caldeira"] }

Pedidos ==
    Junta(Junta(Junta(Junta(
        Opcional("biomassa", {"pinus", "eucalipto", "amendoim", "bagaco"}),
        Opcional("fase_agricola", PedidosAgricola)),
        Opcional("fase_industrial", PedidosIndustrial)),
        Opcional("fase_distribuicao", PedidosDistribuicao)),
        Opcional("fase_uso", PedidosUso))

\* Arguments of direct calls of the phase calculators.
DadosAgricola ==
    Junta(Junta(Junta(
        Opcional("quantidade_biomassa_kg", Quantidades),
        { InsumosZero, InsumosBasico,
          [InsumosZero EXCEPT !["distancia_transporte_km"] = R(50)] }),
        Opcional("luc_dluc_opcional_kg_co2", {Zero, R(500)})),
        Opcional("fator_biomassa_agricola", {R(50), R(80)}))

DadosIndustrial ==
    Junta(Junta(
        Opcional("energia_eletrica_kwh", {Zero, R(500), R(1000)}),
        Opcional("energia_termica_mj", {Zero, R(1900)})),
        Campo("agua_m3", {Zero, R(5000)}))

DadosDistribuicao ==
    Junta(Junta(
        Opcional("modal_transporte", {"rodoviario", "maritimo", "ferroviario", "aereo"}),
        Opcional("distancia_km", {Zero, R(200), R(-200)})),
        Opcional("quantidade_biomassa_kg", Quantidades))

DadosUso ==
    Junta(Junta(
        Opcional("quantidade_biomassa_kg", Quantidades),
        Opcional("pci", {Rat(37, 2), Rat(91, 5), Rat(89, 5)})),
        Opcional("tipo_combustao", {"caldeira"}))

----------------------------------------------------------------------------
(* The engine with one request: the caller validates it and calculates it. *)

Init ==
    /\ fatores \in Tabelas
    /\ biomassas = BiomassasPreset
    /\ dados_entrada \in Pedidos
    /\ validacao = Nenhum
    /\ resultado = Nenhum
    /\ fase_chamada = Nenhum
    /\ fase_retorno = Nenhum
    /\ quadros = Vazio
    /\ sessao = Nenhum

\* valido, erros = Validador.validar_completo(dados_entrada)
Validar ==
    /\ validacao' = LET v == validar_completo(dados_entrada)
                    IN  [tipo |-> "ok", valido |-> v[1], erros |-> v[2]]
    /\ UNCHANGED <<quadros, sessao, fatores, biomassas, dados_entrada, resultado,
                   fase_chamada, fase_retorno>>

\* resultado = calculadora.calcular_intensidade_carbono(dados_entrada)
Calcular ==
    /\ LET c == calcular_intensidade_carbono(fatores, biomassas, dados_entrada)
       IN  /\ resultado' = c.retorno
           /\ dados_entrada' = c.entrada
           /\ biomassas' = c.biomassas
    /\ UNCHANGED <<quadros, sessao, fatores, validacao, fase_chamada, fase_retorno>>

Next == Validar \/ Calcular

Spec == Init /\ [][Next]_vars

----------------------------------------------------------------------------
(* The phase calculators called directly, as the unit tests call them.     *)

InitFases ==
    /\ fatores \in Tabelas
    /\ biomassas = BiomassasPreset
    /\ dados_entrada = Vazio
    /\ validacao = Nenhum
    /\ resultado = Nenhum
    /\ fase_chamada = Nenhum
    /\ fase_retorno = Nenhum
    /\ quadros = Vazio
    /\ sessao = Nenhum

Chamada(fase, dados) == [tipo |-> "ok", fase |-> fase, dados |-> dados]

ChamarFaseAgricola ==
    /\ \E d \in DadosAgricola :
          /\ fase_chamada' = Chamada("agricola", d)
          /\ fase_retorno' = FaseAgricola_calcular_emissoes(fatores, d)
    /\ UNCHANGED <<quadros, sessao, fatores, biomassas, dados_entrada, validacao, resultado>>

ChamarFaseIndustrial ==
    /\ \E d \in DadosIndustrial :
          /\ fase_chamada' = Chamada("industrial", d)
          /\ fase_retorno' = FaseIndustrial_calcular_emissoes(fatores, d)
    /\ UNCHANGED <<quadros, sessao, fatores, biomassas, dados_entrada, validacao, resultado>>

ChamarFaseDistribuicao ==
    /\ \E d \in DadosDistribuicao :
          /\ fase_chamada' = Chamada("distribuicao", d)
          /\ fase_retorno' = FaseDistribuicao_calcular_emissoes(fatores, d)
    /\ UNCHANGED <<quadros, sessao, fatores, biomassas, dados_entrada, validacao, resultado>>

ChamarFaseUso ==
    /\ \E d \in DadosUso :
          /\ fase_chamada' = Chamada("uso", d)
          /\ fase_retorno' = FaseUso_calcular_emissoes(fatores, d)
    /\ UNCHANGED <<quadros, sessao, fatores, biomassas, dados_entrada, validacao, resultado>>

NextFases ==
    \/ ChamarFaseAgricola
    \/ ChamarFaseIndustrial
    \/ ChamarFaseDistribuicao
    \/ ChamarFaseUso

SpecFases == InitFases /\ [][NextFases]_vars

----------------------------------------------------------------------------
(* The validators called directly, as the unit tests call them, on records *)
(* whose fields sit on, above and below the limits of the rules.           *)

NoLimite(maximo) == {R(maximo), R(maximo + 1), R(-1)}

\* Every quantity with every distance and LUC/dLUC, and a passing quantity
\* with every fertilizer and pesticide amount.
RegistrosAgricola ==
    Junta(Junta(
        Opcional("quantidade_biomassa_kg", Quantidades \cup NoLimite(1000000)),
        Opcional("distancia_transporte_km", {Zero, R(-10)} \cup NoLimite(1000))),
        Opcional("luc_dluc_opcional_kg_co2", {Zero, R(5000), R(2000000), R(-500)}))
    \cup
    Junta(Junta(Junta(
        Campo("quantidade_biomassa_kg", {R(1000)}),
        Opcional("distancia_transporte_km", {R(-10)})),
        Opcional("uso_fertilizantes_kg", NoLimite(100000))),
        Opcional("uso_pesticidas_kg", NoLimite(10000)))

RegistrosIndustrial ==
    Junta(Junta(
        Opcional("energia_eletrica_kwh", {Zero} \cup NoLimite(1000000)),
        Opcional("energia_termica_mj", NoLimite(10000000))),
        Opcional("agua_m3", NoLimite(100000)))

RegistrosDistribuicao ==
    Junta(
        Opcional("modal_transporte",
                 {"rodoviario", "maritimo", "ferroviario", "aereo", ""}),
        Opcional("distancia_km", {Zero, R(-10)} \cup NoLimite(50000)))

RegistrosUso ==
    Junta(
        Opcional("tipo_combustao", {"caldeira", "fornalha", "outro", "invalido", ""}),
        Opcional("quantidade_biomassa_kg", {R(1000)}))

\* Whole requests for validar_completo: each part passing or failing (an
\* absent industrial or use record passes, an absent id or agricultural or
\* distribution record fails).
PedidosCompletos ==
    Junta(Junta(Junta(Junta(
        Opcional("biomassa", {"pinus", "bagaco"}),
        Opcional("fase_agricola",
            { [quantidade_biomassa_kg |-> R(1000), distancia_transporte_km |-> R(50)],
              [quantidade_biomassa_kg |-> Zero, distancia_transporte_km |-> R(-10)],
              [quantidade_biomassa_kg |-> Zero, distancia_transporte_km |-> R(1001),
               uso_fertilizantes_kg |-> R(100001), uso_pesticidas_kg |-> R(-1),
               luc_dluc_opcional_kg_co2 |-> R(-500)] })),
        Opcional("fase_industrial",
            { [energia_eletrica_kwh |-> R(-1), agua_m3 |-> R(100001)] })),
        Opcional("fase_distribuicao",
            { [modal_transporte |-> "rodoviario", distancia_km |-> R(200)],
              [modal_transporte |-> "aereo", distancia_km |-> R(-10)] })),
        Opcional("fase_uso", { [tipo_combustao |-> "invalido"] }))

InitValidador ==
    /\ fatores = TabelaReferencia
    /\ biomassas = BiomassasPreset
    /\ dados_entrada = Vazio
    /\ validacao = Nenhum
    /\ resultado = Nenhum
    /\ fase_chamada = Nenhum
    /\ fase_retorno = Nenhum
    /\ quadros = Vazio
    /\ sessao = Nenhum

\* valido, erros = Validador.validar_...(dados)
Veredito(v) == [valido |-> v[1], erros |-> v[2]]

ChamarValidarFaseAgricola ==
    /\ \E d \in RegistrosAgricola :
          /\ fase_chamada' = Chamada("validar_fase_agricola", d)
          /\ fase_retorno' = Veredito(validar_fase_agricola(d))
    /\ UNCHANGED <<quadros, sessao, fatores, biomassas, dados_entrada, validacao, resultado>>

ChamarValidarFaseIndustrial ==
    /\ \E d \in RegistrosIndustrial :
          /\ fase_chamada' = Chamada("validar_fase_industrial", d)
          /\ fase_retorno' = Veredito(validar_fase_industrial(d))
    /\ UNCHANGED <<quadros, sessao, fatores, biomassas, dados_entrada, validacao, resultado>>

ChamarValidarFaseDistribuicao ==
    /\ \E d \in RegistrosDistribuicao :
          /\ fase_chamada' = Chamada("validar_fase_distribuicao", d)
          /\ fase_retorno' = Veredito(validar_fase_distribuicao(d))
    /\ UNCHANGED <<quadros, sessao, fatores, biomassas, dados_entrada, validacao, resultado>>

ChamarValidarFaseUso ==
    /\ \E d \in RegistrosUso :
          /\ fase_chamada' = Chamada("validar_fase_uso", d)
          /\ fase_retorno' = Veredito(validar_fase_uso(d))
    /\ UNCHANGED <<quadros, sessao, fatores, biomassas, dados_entrada, validacao, resultado>>

ChamarValidarCompleto ==
    /\ \E d \in PedidosCompletos :
          /\ fase_chamada' = Chamada("validar_completo", d)
          /\ fase_retorno' = Veredito(validar_completo(d))
    /\ UNCHANGED <<quadros, sessao, fatores, biomassas, dados_entrada, validacao, resultado>>

NextValidador ==
    \/ ChamarValidarFaseAgricola
    \/ ChamarValidarFaseIndustrial
    \/ ChamarValidarFaseDistribuicao
    \/ ChamarValidarFaseUso
    \/ ChamarValidarCompleto

SpecValidador == InitValidador /\ [][NextValidador]_vars

----------------------------------------------------------------------------
(* One engine instance, built on some catalog, whose methods are called    *)
(* any number of times with different requests, next to the Validador.     *)

\* Catalogs that data/biomasses_preset.json may hold: the three presets, the
\* presets and one more biomass, and one preset alone.
CatalogoEstendido ==
    BiomassasPreset @@
    [ bagaco |-> [ nome |-> "Bagaco de Cana", descricao |-> "Residuo da moagem",
                   pci |-> R(17), unidade_pci |-> "MJ/kg", densidade |-> R(150),
                   fator_biomassa_agricola |-> R(60), tipo |-> "residuo_agricola" ] ]
CatalogoReduzido == [b \in {"pinus"} |-> BiomassasPreset[b]]
Catalogos == {BiomassasPreset, CatalogoEstendido, CatalogoReduzido}

NomesDeBiomassa == {"pinus", "amendoim", "bagaco", "invalida", ""}

PedidosMotor ==
    Junta(Junta(
        Opcional("biomassa", NomesDeBiomassa),
        Opcional("fase_agricola",
            { [quantidade_biomassa_kg |-> q, distancia_transporte_km |-> R(50)] :
                 q \in Quantidades })),
        Opcional("fase_distribuicao",
            { [modal_transporte |-> "rodoviario", distancia_km |-> R(200)] }))

InitMotor ==
    /\ fatores = TabelaReferencia
    /\ biomassas \in Catalogos
    /\ dados_entrada = Vazio
    /\ validacao = Nenhum
    /\ resultado = Nenhum
    /\ fase_chamada = Nenhum
    /\ fase_retorno = Nenhum
    /\ quadros = Vazio
    /\ sessao = Nenhum

\* calculadora.get_biomassa_info(nome)
ChamarGetBiomassaInfo ==
    /\ \E nome \in NomesDeBiomassa :
          /\ fase_chamada' = Chamada("get_biomassa_info", [biomassa |-> nome])
          /\ fase_retorno' = get_biomassa_info(biomassas, nome)
    /\ UNCHANGED <<quadros, sessao, fatores, biomassas, dados_entrada, validacao, resultado>>

\* calculadora.calcular_intensidade_carbono(pedido)
ChamarCalcular ==
    /\ \E pedido \in PedidosMotor :
          LET c == calcular_intensidade_carbono(fatores, biomassas, pedido)
          IN  /\ fase_chamada' = Chamada("calcular_intensidade_carbono", pedido)
              /\ fase_retorno' = [retorno |-> c.retorno, entrada |-> c.entrada,
                                   fases_invocadas |-> c.fases_invocadas]
              /\ biomassas' = c.biomassas
    /\ UNCHANGED <<quadros, sessao, fatores, dados_entrada, validacao, resultado>>

\* Validador.validar_completo(pedido)
ChamarValidarPedido ==
    /\ \E pedido \in PedidosMotor :
          /\ fase_chamada' = Chamada("validar_completo", pedido)
          /\ fase_retorno' = Veredito(validar_completo(pedido))
    /\ UNCHANGED <<quadros, sessao, fatores, biomassas, dados_entrada, validacao, resultado>>

NextMotor ==
    \/ ChamarGetBiomassaInfo
    \/ ChamarCalcular
    \/ ChamarValidarPedido

SpecMotor == InitMotor /\ [][NextMotor]_vars

----------------------------------------------------------------------------
(* Properties of calcular_intensidade_carbono (specification Spec).        *)

Calculou == resultado.tipo = "ok"
Fases == {"agricola", "industrial", "distribuicao", "uso"}

\* The request's phase record, {} when absent, and a numeric field of it,
\* 0 when absent.
FaseDoPedido(fase) == Get(dados_entrada, fase, Vazio)
CampoDoPedido(fase, campo) == Get(FaseDoPedido(fase), campo, Zero)

SomaDasFases(r) ==
    RAdd(RAdd(RAdd(r.resultados_por_fase.agricola.emissoes_kg_co2,
                   r.resultados_por_fase.industrial.emissoes_kg_co2),
              r.resultados_por_fase.distribuicao.emissoes_kg_co2),
         r.resultados_por_fase.uso.emissoes_kg_co2)

\* C1: in every result of calculate, emissoes_totais_kg_co2 is the sum of the
\* four per-phase emissoes_kg_co2, and the Use phase's biogenic emissions are
\* not part of it (the total is not that sum plus the biogenic emissions
\* whenever these are not zero).
C1_TotalSomaDasQuatroFases ==
    Calculou =>
        LET r == resultado.valor
            biogenicas == r.resultados_por_fase.uso.emissoes_biogenicas_kg_co2
        IN  /\ r.emissoes_totais_kg_co2 = SomaDasFases(r)
            /\ biogenicas # Zero =>
                  r.emissoes_totais_kg_co2 # RAdd(SomaDasFases(r), biogenicas)

\* A result in which all four phases emit and the biogenic emissions are not zero.
C1_Witness ==
    /\ Calculou
    /\ \A fase \in Fases :
          RGt(resultado.valor.resultados_por_fase[fase].emissoes_kg_co2, Zero)
    /\ RGt(resultado.valor.resultados_por_fase.uso.emissoes_biogenicas_kg_co2, Zero)

SomaDosPercentuais(r) ==
    RAdd(RAdd(RAdd(r.resultados_por_fase.agricola.percentual,
                   r.resultados_por_fase.industrial.percentual),
              r.resultados_por_fase.distribuicao.percentual),
         r.resultados_por_fase.uso.percentual)

\* C2: in every result of calculate the four percentual values sum to 100
\* within 0.1 when the total emissions are positive, and are all 0 when the
\* total is 0.
C2_PercentuaisSomam100 ==
    Calculou =>
        LET r == resultado.valor
        IN  /\ RGt(r.emissoes_totais_kg_co2, Zero) =>
                  RLe(RAbs(RSub(SomaDosPercentuais(r), R(100))), Rat(1, 10))
            /\ r.emissoes_totais_kg_co2 = Zero =>
                  \A fase \in Fases : r.resultados_por_fase[fase].percentual = Zero

\* A result of a request the Validator accepts, with a positive total shared
\* by at least three phases.
C2_Witness ==
    /\ Calculou
    /\ validacao.tipo = "ok" /\ validacao.valido
    /\ RGt(resultado.valor.emissoes_totais_kg_co2, Zero)
    /\ Cardinality({fase \in Fases :
           RGt(resultado.valor.resultados_por_fase[fase].percentual, Zero)}) >= 3

\* Every input other than the biomass quantity is zero or absent.
OutrosInsumosZero ==
    /\ \A campo \in {"distancia_transporte_km", "uso_fertilizantes_kg",
                     "uso_pesticidas_kg", "luc_dluc_opcional_kg_co2"} :
          CampoDoPedido("fase_agricola", campo) = Zero
    /\ \A campo \in {"energia_eletrica_kwh", "energia_termica_mj", "agua_m3"} :
          CampoDoPedido("fase_industrial", campo) = Zero
    /\ CampoDoPedido("fase_distribuicao", "distancia_km") = Zero

\* C3: energia_total_mj is the agricultural biomass quantity times the PCI of
\* the request's biomass profile; the intensity is total * 1000 / energy when
\* the energy is positive and 0 otherwise; pinus, 1000 kg and every other
\* input zero (combustion factor 0) gives 18500 MJ and 1000 * 80 / 1000 kg CO2.
C3_EnergiaEIntensidade ==
    Calculou =>
        LET r == resultado.valor
            quantidade == CampoDoPedido("fase_agricola", "quantidade_biomassa_kg")
            perfil == biomassas[dados_entrada["biomassa"]]
        IN  /\ r.energia_total_mj = RMul(quantidade, perfil.pci)
            /\ IF RGt(r.energia_total_mj, Zero)
               THEN r.intensidade_carbono_g_co2_mj =
                       RDiv(RMul(r.emissoes_totais_kg_co2, R(1000)), r.energia_total_mj)
               ELSE r.intensidade_carbono_g_co2_mj = Zero
            /\ ( /\ dados_entrada["biomassa"] = "pinus"
                 /\ quantidade = R(1000)
                 /\ OutrosInsumosZero
                 /\ Fator(fatores, "fator_combustao", Zero) = Zero )
               => /\ r.energia_total_mj = R(18500)
                  /\ r.emissoes_totais_kg_co2 =
                        RDiv(RMul(R(1000), perfil.fator_biomassa_agricola), R(1000))
                  /\ r.emissoes_totais_kg_co2 = R(80)
                  /\ r.intensidade_carbono_g_co2_mj = Rat(80 * 1000, 18500)

\* The example: pinus, 1000 kg, nothing else, calculated.
C3_Witness ==
    /\ Calculou
    /\ dados_entrada["biomassa"] = "pinus"
    /\ CampoDoPedido("fase_agricola", "quantidade_biomassa_kg") = R(1000)
    /\ OutrosInsumosZero
    /\ Fator(fatores, "fator_combustao", Zero) = Zero
    /\ resultado.valor.energia_total_mj = R(18500)

\* Every factor of the engine's table (and of its biomass profiles) is >= 0.
FatoresNaoNegativos ==
    /\ \A nome \in DOMAIN fatores : RGe(fatores[nome].valor, Zero)
    /\ \A b \in DOMAIN biomassas :
          /\ RGe(biomassas[b].fator_biomassa_agricola, Zero)
          /\ RGe(biomassas[b].pci, Zero)

CamposNumericos ==
    [ fase_agricola     |-> {"quantidade_biomassa_kg", "distancia_transporte_km",
                             "uso_fertilizantes_kg", "uso_pesticidas_kg",
                             "luc_dluc_opcional_kg_co2"},
      fase_industrial   |-> {"energia_eletrica_kwh", "energia_termica_mj", "agua_m3"},
      fase_distribuicao |-> {"distancia_km"},
      fase_uso          |-> {} ]

\* Every activity quantity of the request is >= 0.
EntradasNaoNegativas ==
    \A fase \in DOMAIN CamposNumericos : \A campo \in CamposNumericos[fase] :
        RGe(CampoDoPedido(fase, campo), Zero)

\* C4 as claimed: with non-negative factors and a positive energy, the
\* intensity returned by any calculate call is non-negative.
C4_Original ==
    (Calculou /\ FatoresNaoNegativos /\ RGt(resultado.valor.energia_total_mj, Zero))
        => RGe(resultado.valor.intensidade_carbono_g_co2_mj, Zero)

\* C4: with non-negative factors, a positive energy and no negative activity
\* quantity in the request, the intensity returned by calculate is non-negative.
C4_IntensidadeNaoNegativa ==
    ( /\ Calculou
      /\ FatoresNaoNegativos
      /\ EntradasNaoNegativas
      /\ RGt(resultado.valor.energia_total_mj, Zero) )
        => RGe(resultado.valor.intensidade_carbono_g_co2_mj, Zero)

\* A call with a counted combustion factor, non-negative inputs and factors.
C4_Witness ==
    /\ Calculou
    /\ FatoresNaoNegativos
    /\ EntradasNaoNegativas
    /\ RGt(resultado.valor.energia_total_mj, Zero)
    /\ RGt(resultado.valor.resultados_por_fase.uso.emissoes_kg_co2, Zero)
    /\ RGt(resultado.valor.intensidade_carbono_g_co2_mj, Zero)

\* The table's ci_fossil_referencia, 85.0 when the table has none.
ReferenciaFossil ==
    IF "ci_fossil_referencia" \in DOMAIN fatores
    THEN fatores["ci_fossil_referencia"].valor
    ELSE R(85)

\* C5: neea is the fossil reference minus the intensity; reducao_percentual is
\* neea / reference * 100 when the reference is positive and 0 otherwise; the
\* comparacao_fossil record repeats reference, intensity and neea.
C5_NeeaEComparacao ==
    Calculou =>
        LET r == resultado.valor
            c == r.comparacao_fossil
        IN  /\ r.neea = RSub(ReferenciaFossil, r.intensidade_carbono_g_co2_mj)
            /\ IF RGt(ReferenciaFossil, Zero)
               THEN c.reducao_percentual =
                       RMul(RDiv(r.neea, ReferenciaFossil), R(100))
               ELSE c.reducao_percentual = Zero
            /\ c.ci_fossil_referencia_g_co2_mj = ReferenciaFossil
            /\ c.ci_biocombustivel_g_co2_mj = r.intensidade_carbono_g_co2_mj
            /\ c.reducao_g_co2_mj = r.neea

\* A result under a table without ci_fossil_referencia (default 85) whose
\* intensity, and so whose reduction, is not zero.
C5_Witness ==
    /\ Calculou
    /\ "ci_fossil_referencia" \notin DOMAIN fatores
    /\ RGt(resultado.valor.intensidade_carbono_g_co2_mj, Zero)
    /\ resultado.valor.comparacao_fossil.ci_fossil_referencia_g_co2_mj = R(85)
    /\ resultado.valor.comparacao_fossil.reducao_percentual # Zero

\* A result under a table whose fossil reference is not positive.
C5_WitnessReferenciaNaoPositiva ==
    /\ Calculou
    /\ RLe(ReferenciaFossil, Zero)
    /\ RGt(resultado.valor.intensidade_carbono_g_co2_mj, Zero)

\* The Validator accepted the request, and calculate returned its result,
\* on an engine with the reference table.
AceitoECalculado ==
    /\ validacao.tipo = "ok" /\ validacao.valido
    /\ Calculou
    /\ fatores = TabelaReferencia

\* C6 as claimed: every accepted request has 0 < intensity < 85, neea > 0,
\* reducao_g_co2_mj > 0 and 0 < reducao_percentual < 100.
C6_Original ==
    AceitoECalculado =>
        LET r == resultado.valor
            c == r.comparacao_fossil
        IN  /\ RGt(r.intensidade_carbono_g_co2_mj, Zero)
            /\ RLt(r.intensidade_carbono_g_co2_mj, R(85))
            /\ RGt(r.neea, Zero)
            /\ RGt(c.reducao_g_co2_mj, Zero)
            /\ RGt(c.reducao_percentual, Zero)
            /\ RLt(c.reducao_percentual, R(100))

\* C6: every accepted request has intensity > 0 and reducao_percentual < 100;
\* intensity < 85, neea > 0, reducao_g_co2_mj > 0 and reducao_percentual > 0
\* each hold exactly when total emissions * 1000 < 85 * energy.
C6_AceitoIntensidadePositiva ==
    AceitoECalculado =>
        LET r == resultado.valor
            c == r.comparacao_fossil
            abaixo == RLt(RMul(r.emissoes_totais_kg_co2, R(1000)),
                          RMul(R(85), r.energia_total_mj))
        IN  /\ RGt(r.intensidade_carbono_g_co2_mj, Zero)
            /\ RLt(c.reducao_percentual, R(100))
            /\ RLt(r.intensidade_carbono_g_co2_mj, R(85)) <=> abaixo
            /\ RGt(r.neea, Zero) <=> abaixo
            /\ RGt(c.reducao_g_co2_mj, Zero) <=> abaixo
            /\ RGt(c.reducao_percentual, Zero) <=> abaixo

\* An accepted request whose intensity is below the fossil reference.
C6_Witness ==
    /\ AceitoECalculado
    /\ RGt(resultado.valor.intensidade_carbono_g_co2_mj, Zero)
    /\ RLt(resultado.valor.intensidade_carbono_g_co2_mj, R(85))
    /\ RGt(resultado.valor.comparacao_fossil.reducao_percentual, Zero)

----------------------------------------------------------------------------
(* Properties of the phase calculators (specification SpecFases).          *)

ChamouFase(fase) == fase_chamada.tipo = "ok" /\ fase_chamada.fase = fase

\* A numeric field of the call's argument, 0 when absent.
Arg(campo) == Get(fase_chamada.dados, campo, Zero)

Milhao == R(1000000)

\* C7: FaseAgricola.calcular_emissoes returns biomass * factor / 1000 +
\* fertilizer * fertFactor / 1000 + pesticide * pestFactor / 1000 +
\* (roadFactor * distance * biomass / 1000) / 1000 + LUC; factor 50 with
\* 1000 kg and nothing else gives 50 kg CO2, and 550 with LUC/dLUC 500.
C7_FormulaAgricola ==
    ChamouFase("agricola") =>
        LET biomassaKg == Arg("quantidade_biomassa_kg")
            agriculturalFactor ==
                Get(fase_chamada.dados, "fator_biomassa_agricola", R(100))
            fertFactor == Fator(fatores, "fator_fertilizante_n", R(6540))
            pestFactor == Fator(fatores, "fator_pesticida", R(10000))
            roadFactor == Fator(fatores, "fator_transporte_rodoviario", R(62))
            insumos == RAdd(RAdd(RMul(biomassaKg, agriculturalFactor),
                                 RMul(Arg("uso_fertilizantes_kg"), fertFactor)),
                            RMul(Arg("uso_pesticidas_kg"), pestFactor))
            tkm == RDiv(RMul(Arg("distancia_transporte_km"), biomassaKg), R(1000))
            esperado == RAdd(RAdd(RDiv(insumos, R(1000)),
                                  RDiv(RMul(roadFactor, tkm), R(1000))),
                             Arg("luc_dluc_opcional_kg_co2"))
            apenasBiomassa ==
                /\ agriculturalFactor = R(50)
                /\ biomassaKg = R(1000)
                /\ Arg("distancia_transporte_km") = Zero
                /\ Arg("uso_fertilizantes_kg") = Zero
                /\ Arg("uso_pesticidas_kg") = Zero
        IN  /\ fase_retorno.emissoes_kg_co2 = esperado
            /\ (apenasBiomassa /\ Arg("luc_dluc_opcional_kg_co2") = Zero)
                  => fase_retorno.emissoes_kg_co2 = R(50)
            /\ (apenasBiomassa /\ Arg("luc_dluc_opcional_kg_co2") = R(500))
                  => fase_retorno.emissoes_kg_co2 = R(550)

\* A call with every input present and not zero (transport included).
C7_Witness ==
    /\ ChamouFase("agricola")
    /\ \A campo \in CamposNumericos["fase_agricola"] \cup {"fator_biomassa_agricola"} :
          campo \in DOMAIN fase_chamada.dados /\ RGt(Arg(campo), Zero)
    /\ RGt(fase_retorno.detalhamento.transporte, Zero)

\* The example with LUC/dLUC: factor 50, 1000 kg, LUC 500 returned 550.
C7_WitnessExemplo ==
    /\ ChamouFase("agricola")
    /\ Get(fase_chamada.dados, "fator_biomassa_agricola", R(100)) = R(50)
    /\ Arg("quantidade_biomassa_kg") = R(1000)
    /\ Arg("luc_dluc_opcional_kg_co2") = R(500)
    /\ fase_retorno.emissoes_kg_co2 = R(550)

\* C8: FaseIndustrial.calcular_emissoes returns electricity * elecFactor / 1000
\* + thermal * (dieselFactor / 38) / 1000 + water * waterFactor / 1000; no
\* consumption gives 0, and 1000 kWh alone at factor 95 gives 95 kg CO2.
C8_FormulaIndustrial ==
    ChamouFase("industrial") =>
        LET elecFactor   == Fator(fatores, "fator_eletricidade_br", R(95))
            dieselFactor == Fator(fatores, "fator_diesel", R(2680))
            waterFactor  == Fator(fatores, "fator_agua", Rat(36, 100))
            esperado ==
                RDiv(RAdd(RAdd(RMul(Arg("energia_eletrica_kwh"), elecFactor),
                               RDiv(RMul(Arg("energia_termica_mj"), dieselFactor), R(38))),
                          RMul(Arg("agua_m3"), waterFactor)),
                     R(1000))
            semTermicaNemAgua ==
                Arg("energia_termica_mj") = Zero /\ Arg("agua_m3") = Zero
        IN  /\ fase_retorno.emissoes_kg_co2 = esperado
            /\ (semTermicaNemAgua /\ Arg("energia_eletrica_kwh") = Zero)
                  => fase_retorno.emissoes_kg_co2 = Zero
            /\ ( /\ semTermicaNemAgua
                 /\ Arg("energia_eletrica_kwh") = R(1000)
                 /\ elecFactor = R(95) )
                  => fase_retorno.emissoes_kg_co2 = R(95)

\* A call with electricity, thermal energy and water all consumed.
C8_Witness ==
    /\ ChamouFase("industrial")
    /\ \A campo \in CamposNumericos["fase_industrial"] : RGt(Arg(campo), Zero)
    /\ RGt(fase_retorno.emissoes_kg_co2, Zero)

\* The mode's factor from the factor table (its literature default when the
\* table lacks it).
FatorDoModal(modal) ==
    CASE modal = "rodoviario"  -> Fator(fatores, "fator_transporte_rodoviario", R(62))
      [] modal = "maritimo"    -> Fator(fatores, "fator_transporte_maritimo", Rat(85, 10))
      [] modal = "ferroviario" -> Fator(fatores, "fator_transporte_ferroviario", R(22))

Modais == {"rodoviario", "maritimo", "ferroviario"}

\* C9: for each of the three modes FaseDistribuicao.calcular_emissoes returns
\* (modeFactor * distance * biomass / 1000) / 1000 with that mode's factor of
\* the table; with distance 0 the emissions are 0 for any mass and mode.
C9_FormulaDistribuicao ==
    ChamouFase("distribuicao") =>
        LET modal == Get(fase_chamada.dados, "modal_transporte", "rodoviario")
        IN  /\ ( /\ "modal_transporte" \in DOMAIN fase_chamada.dados
                 /\ modal \in Modais )
               => fase_retorno.emissoes_kg_co2 =
                     RDiv(RMul(FatorDoModal(modal),
                               RMul(Arg("distancia_km"), Arg("quantidade_biomassa_kg"))),
                          Milhao)
            /\ Arg("distancia_km") = Zero => fase_retorno.emissoes_kg_co2 = Zero

\* A rail shipment of a positive mass over a positive distance.
C9_Witness ==
    /\ ChamouFase("distribuicao")
    /\ Get(fase_chamada.dados, "modal_transporte", "") = "ferroviario"
    /\ RGt(Arg("distancia_km"), Zero)
    /\ RGt(Arg("quantidade_biomassa_kg"), Zero)
    /\ RGt(fase_retorno.emissoes_kg_co2, Zero)

\* What the calculator returns for the same shipment sent by another mode.
EmissoesPorModal(modal) ==
    FaseDistribuicao_calcular_emissoes(
        fatores, Put(fase_chamada.dados, "modal_transporte", modal)).emissoes_kg_co2

\* The table's factors are ordered maritime < rail < road, as 8.5 < 22 < 62.
FatoresModaisOrdenados ==
    /\ RLt(FatorDoModal("maritimo"), FatorDoModal("ferroviario"))
    /\ RLt(FatorDoModal("ferroviario"), FatorDoModal("rodoviario"))

ChamouMaritimo ==
    /\ ChamouFase("distribuicao")
    /\ Get(fase_chamada.dados, "modal_transporte", "") = "maritimo"

\* C10 as claimed: for any given distance and mass, the maritime emissions
\* are strictly below the rail emissions, and these strictly below the road
\* ones.
C10_Original ==
    ( /\ ChamouMaritimo
      /\ FatoresModaisOrdenados
      /\ {"distancia_km", "quantidade_biomassa_kg"} \subseteq DOMAIN fase_chamada.dados )
    =>
        /\ RLt(fase_retorno.emissoes_kg_co2, EmissoesPorModal("rodoviario"))
        /\ RLt(fase_retorno.emissoes_kg_co2, EmissoesPorModal("ferroviario"))
        /\ RLt(EmissoesPorModal("ferroviario"), EmissoesPorModal("rodoviario"))

\* C10: with factors ordered maritime < rail < road, the emissions of one
\* shipment are ordered maritime < rail < road when distance * mass > 0, and
\* are all 0 when distance or mass is 0.
C10_MaritimoMenorQueRodoviario ==
    (ChamouMaritimo /\ FatoresModaisOrdenados) =>
        LET tkm == RMul(Arg("distancia_km"), Arg("quantidade_biomassa_kg"))
        IN  /\ RGt(tkm, Zero) =>
                  /\ RLt(fase_retorno.emissoes_kg_co2, EmissoesPorModal("rodoviario"))
                  /\ RLt(fase_retorno.emissoes_kg_co2, EmissoesPorModal("ferroviario"))
                  /\ RLt(EmissoesPorModal("ferroviario"), EmissoesPorModal("rodoviario"))
            /\ tkm = Zero =>
                  /\ fase_retorno.emissoes_kg_co2 = Zero
                  /\ EmissoesPorModal("ferroviario") = Zero
                  /\ EmissoesPorModal("rodoviario") = Zero

\* A maritime shipment of a positive mass over a positive distance.
C10_Witness ==
    /\ ChamouMaritimo
    /\ FatoresModaisOrdenados
    /\ RGt(Arg("distancia_km"), Zero)
    /\ RGt(Arg("quantidade_biomassa_kg"), Zero)
    /\ RLt(fase_retorno.emissoes_kg_co2, EmissoesPorModal("rodoviario"))

----------------------------------------------------------------------------
(* The use phase called directly.                                          *)

FatorCombustaoPadrao == Fator(fatores, "fator_combustao", Zero) = Zero

BiogenicasPorEnergia ==
    RMul(RMul(Arg("quantidade_biomassa_kg"), Get(fase_chamada.dados, "pci", R(18))),
         Rat(1, 10))

\* pytest.approx(esperado, rel=0.01): |obtido - esperado| <= 0.01 * |esperado|.
DentroDeUmPorCento(obtido, esperado) ==
    RLe(RAbs(RSub(obtido, esperado)), RMul(Rat(1, 100), RAbs(esperado)))

PciProximoDe184(pci) ==
    /\ RLe(RMul(Rat(99, 1000), pci), Rat(184, 100))
    /\ RLe(Rat(184, 100), RMul(Rat(101, 1000), pci))

----------------------------------------------------------------------------
(* Properties of the Validador (specification SpecValidador).              *)

\* A numeric field of a record, 0 when absent.
Num(d, campo) == Get(d, campo, Zero)

ForaDaFaixa(v, maximo) == RLt(v, Zero) \/ RGt(v, R(maximo))

\* The rules of each phase that a record violates.
RegrasVioladasAgricola(d) ==
    {r \in {"quantidade", "distancia", "fertilizantes", "pesticidas", "luc"} :
        CASE r = "quantidade" ->
                 \/ RLe(Num(d, "quantidade_biomassa_kg"), Zero)
                 \/ RGt(Num(d, "quantidade_biomassa_kg"), R(1000000))
          [] r = "distancia"     -> ForaDaFaixa(Num(d, "distancia_transporte_km"), 1000)
          [] r = "fertilizantes" -> ForaDaFaixa(Num(d, "uso_fertilizantes_kg"), 100000)
          [] r = "pesticidas"    -> ForaDaFaixa(Num(d, "uso_pesticidas_kg"), 10000)
          [] r = "luc"           -> RLt(Num(d, "luc_dluc_opcional_kg_co2"), Zero)}

RegrasVioladasIndustrial(d) ==
    {r \in {"eletrica", "termica", "agua"} :
        CASE r = "eletrica" -> ForaDaFaixa(Num(d, "energia_eletrica_kwh"), 1000000)
          [] r = "termica"  -> ForaDaFaixa(Num(d, "energia_termica_mj"), 10000000)
          [] r = "agua"     -> ForaDaFaixa(Num(d, "agua_m3"), 100000)}

RegrasVioladasDistribuicao(d) ==
    {r \in {"modal", "distancia"} :
        CASE r = "modal" ->
                 \/ "modal_transporte" \notin DOMAIN d
                 \/ d["modal_transporte"] \notin {"rodoviario", "maritimo", "ferroviario"}
          [] r = "distancia" -> ForaDaFaixa(Num(d, "distancia_km"), 50000)}

RegrasVioladasUso(d) ==
    {r \in {"tipo"} :
        /\ "tipo_combustao" \in DOMAIN d
        /\ d["tipo_combustao"] \notin {"caldeira", "fornalha", "outro"}}

RegrasVioladas(pedido, parte) ==
    LET d == Get(pedido, parte, Vazio)
    IN  CASE parte = "fase_agricola"     -> RegrasVioladasAgricola(d)
          [] parte = "fase_industrial"   -> RegrasVioladasIndustrial(d)
          [] parte = "fase_distribuicao" -> RegrasVioladasDistribuicao(d)
          [] parte = "fase_uso"          -> RegrasVioladasUso(d)

PartesDoPedido == {"fase_agricola", "fase_industrial", "fase_distribuicao", "fase_uso"}

\* The parts of a request that fail: the biomass id and the phases.
PartesQueFalham(pedido) ==
    (IF Get(pedido, "biomassa", "") \notin {"amendoim", "pinus", "eucalipto"}
     THEN {"biomassa"} ELSE {})
    \cup {parte \in PartesDoPedido : RegrasVioladas(pedido, parte) # {}}

\* C13: validar_completo checks the biomass id and the four phases without
\* stopping at a failure: it answers valid exactly when no part fails and then
\* with an empty mapping, the mapping has a key exactly for each failing part,
\* and a failing phase lists one error for every rule it violates.
C13_ValidarCompletoAcumulaErros ==
    ChamouFase("validar_completo") =>
        LET pedido == fase_chamada.dados
            erros  == fase_retorno.erros
        IN  /\ fase_retorno.valido <=> PartesQueFalham(pedido) = {}
            /\ fase_retorno.valido <=> erros = Vazio
            /\ DOMAIN erros = PartesQueFalham(pedido)
            /\ \A parte \in DOMAIN erros \cap PartesDoPedido :
                  Len(erros[parte]) = Cardinality(RegrasVioladas(pedido, parte))
            /\ "biomassa" \in DOMAIN erros => Len(erros["biomassa"]) = 1

\* The request of test_validar_completo_multiplos_erros: quantity 0 and
\* distance -10 give two agricultural errors, and the bad mode is reported too.
C13_Witness ==
    /\ ChamouFase("validar_completo")
    /\ Get(fase_chamada.dados, "biomassa", "") = "pinus"
    /\ Num(Get(fase_chamada.dados, "fase_agricola", Vazio), "quantidade_biomassa_kg") = Zero
    /\ Num(Get(fase_chamada.dados, "fase_agricola", Vazio), "distancia_transporte_km") = R(-10)
    /\ Get(Get(fase_chamada.dados, "fase_distribuicao", Vazio), "modal_transporte", "") = "aereo"
    /\ ~fase_retorno.valido
    /\ {"fase_agricola", "fase_distribuicao"} \subseteq DOMAIN fase_retorno.erros
    /\ Len(fase_retorno.erros["fase_agricola"]) >= 2

\* A field of the call's record within 0 .. maximo, 0 when absent.
NaFaixa(campo, maximo) == RGe(Arg(campo), Zero) /\ RLe(Arg(campo), R(maximo))

Menciona(erros, campo) == \E i \in 1..Len(erros) : erros[i].campo = campo

C15_WitnessLucSemLimite ==
    /\ ChamouFase("validar_fase_agricola")
    /\ Arg("luc_dluc_opcional_kg_co2") = R(2000000)
    /\ fase_retorno.valido

C16_WitnessIndustrial ==
    /\ ChamouFase("validar_fase_industrial")
    /\ Arg("energia_eletrica_kwh") = R(1000000)
    /\ Arg("energia_termica_mj") = R(10000000)
    /\ Arg("agua_m3") = R(100000)
    /\ fase_retorno.valido

C16_WitnessUso ==
    /\ ChamouFase("validar_fase_uso")
    /\ "tipo_combustao" \notin DOMAIN fase_chamada.dados
    /\ fase_retorno.valido

\* A record with each absent field of campos written out as 0.
ComZeros(d, campos) ==
    [k \in DOMAIN d \cup campos |-> IF k \in DOMAIN d THEN d[k] ELSE Zero]

CamposAgricola ==
    {"quantidade_biomassa_kg", "distancia_transporte_km", "uso_fertilizantes_kg",
     "uso_pesticidas_kg", "luc_dluc_opcional_kg_co2"}
CamposIndustrial == {"energia_eletrica_kwh", "energia_termica_mj", "agua_m3"}

ChamouValidador ==
    \/ ChamouFase("validar_fase_agricola")
    \/ ChamouFase("validar_fase_industrial")
    \/ ChamouFase("validar_fase_distribuicao")
    \/ ChamouFase("validar_fase_uso")
    \/ ChamouFase("validar_completo")

\* C17: on records whose numeric fields hold numbers of any sign and size and
\* whose fields or phase records may be absent, every validator returns a
\* verdict (ok, errors), the same as for the record with each absent numeric
\* field written as 0; so an absent biomass quantity is reported as an error.
C17_ValidarNuncaFalha ==
    /\ ChamouValidador =>
          /\ fase_retorno.valido \in BOOLEAN
          /\ "erros" \in DOMAIN fase_retorno
    /\ ChamouFase("validar_fase_agricola") =>
          /\ fase_retorno =
                Veredito(validar_fase_agricola(ComZeros(fase_chamada.dados, CamposAgricola)))
          /\ "quantidade_biomassa_kg" \notin DOMAIN fase_chamada.dados =>
                /\ ~fase_retorno.valido
                /\ Menciona(fase_retorno.erros, "Quantidade de biomassa")
    /\ ChamouFase("validar_fase_industrial") =>
          fase_retorno =
             Veredito(validar_fase_industrial(ComZeros(fase_chamada.dados, CamposIndustrial)))
    /\ ChamouFase("validar_fase_distribuicao") =>
          fase_retorno =
             Veredito(validar_fase_distribuicao(ComZeros(fase_chamada.dados, {"distancia_km"})))
    /\ ChamouFase("validar_completo") =>
          /\ fase_retorno =
                Veredito(validar_completo(
                    [k \in DOMAIN fase_chamada.dados \cup PartesDoPedido |->
                        IF k \in DOMAIN fase_chamada.dados
                        THEN fase_chamada.dados[k] ELSE Vazio]))
          /\ "fase_agricola" \notin DOMAIN fase_chamada.dados =>
                /\ ~fase_retorno.valido
                /\ "fase_agricola" \in DOMAIN fase_retorno.erros
                /\ Menciona(fase_retorno.erros["fase_agricola"], "Quantidade de biomassa")

\* An agricultural record with no quantity and a negative distance: a verdict
\* with two errors.
C17_Witness ==
    /\ ChamouFase("validar_fase_agricola")
    /\ "quantidade_biomassa_kg" \notin DOMAIN fase_chamada.dados
    /\ RLt(Arg("distancia_transporte_km"), Zero)
    /\ ~fase_retorno.valido
    /\ Len(fase_retorno.erros) >= 2

\* A request with no phase record at all: a verdict, not an exception.
C17_WitnessPedidoVazio ==
    /\ ChamouFase("validar_completo")
    /\ fase_chamada.dados = Vazio
    /\ ~fase_retorno.valido
    /\ {"biomassa", "fase_agricola", "fase_distribuicao"} \subseteq DOMAIN fase_retorno.erros

----------------------------------------------------------------------------
(* Properties of the engine's catalog (specification SpecMotor).           *)

\* C14 as claimed: whatever the engine's catalog, the Validador reports a
\* biomass error exactly when the request's biomass id is not an id of that
\* catalog.
C14_Original ==
    ChamouFase("validar_completo") =>
        ( "biomassa" \in DOMAIN fase_retorno.erros
          <=> Get(fase_chamada.dados, "biomassa", "") \notin DOMAIN biomassas )

ChamouCalcular == ChamouFase("calcular_intensidade_carbono")

MissingBiomassId == Erro("ValueError", "Nome da biomassa nao fornecido")
UnknownBiomass   == Erro("ValueError", "Biomassa nao encontrada")

\* The fields of an AggregateResult.
CamposDoResultado ==
    {"biomassa", "biomassa_info", "resultados_por_fase", "emissoes_totais_kg_co2",
     "energia_total_mj", "intensidade_carbono_g_co2_mj", "neea", "comparacao_fossil"}

\* C18 as claimed: calculate fails with UnknownBiomass when the request holds
\* an id that is not in the catalog, with MissingBiomassId when it holds no
\* id, and returns a result when the id is in the catalog.
C18_Original ==
    ChamouCalcular =>
        LET pedido == fase_chamada.dados
        IN  /\ "biomassa" \notin DOMAIN pedido =>
                  fase_retorno.retorno = MissingBiomassId
            /\ ( /\ "biomassa" \in DOMAIN pedido
                 /\ pedido["biomassa"] \notin DOMAIN biomassas )
               => fase_retorno.retorno = UnknownBiomass
            /\ ( /\ "biomassa" \in DOMAIN pedido
                 /\ pedido["biomassa"] \in DOMAIN biomassas )
               => fase_retorno.retorno.tipo = "ok"

\* C18: calculate fails with MissingBiomassId when the request's biomass id is
\* absent or empty, with the distinct error UnknownBiomass when the id is
\* non-empty and not in the catalog, and returns an AggregateResult for every
\* request whose id is in the catalog.
C18_ErrosDeBiomassa ==
    ChamouCalcular =>
        LET pedido == fase_chamada.dados
            nome   == Get(pedido, "biomassa", "")
        IN  /\ MissingBiomassId # UnknownBiomass
            /\ nome = "" => fase_retorno.retorno = MissingBiomassId
            /\ (nome # "" /\ nome \notin DOMAIN biomassas)
                  => fase_retorno.retorno = UnknownBiomass
            /\ nome \in DOMAIN biomassas =>
                  /\ fase_retorno.retorno.tipo = "ok"
                  /\ DOMAIN fase_retorno.retorno.valor = CamposDoResultado
                  /\ fase_retorno.retorno.valor.biomassa = nome

\* A call for an id of the extended catalog alone, failing on the presets.
C18_Witness ==
    /\ ChamouCalcular
    /\ Get(fase_chamada.dados, "biomassa", "") = "bagaco"
    /\ "bagaco" \notin DOMAIN biomassas
    /\ fase_retorno.retorno = UnknownBiomass

\* A call with no id failing, and a call for a catalog id returning.
C18_WitnessAusente ==
    /\ ChamouCalcular
    /\ "biomassa" \notin DOMAIN fase_chamada.dados
    /\ fase_retorno.retorno = MissingBiomassId

C18_WitnessResultado ==
    /\ ChamouCalcular
    /\ Get(fase_chamada.dados, "biomassa", "") = "bagaco"
    /\ fase_retorno.retorno.tipo = "ok"

\* C19 as claimed: after a calculate call the caller's request and each of its
\* phase records hold exactly the keys and values they held before the call.
C19_Original ==
    ChamouCalcular => fase_retorno.entrada = fase_chamada.dados

\* C20: no call of calculate or get_biomassa_info, returning or failing,
\* changes the engine's factor table or its catalog.
C20_TabelasInalteradas ==
    [][fatores' = fatores /\ biomassas' = biomassas]_vars

\* A calculate call that returned a result and left the catalog as loaded.
C20_Witness ==
    /\ ChamouCalcular
    /\ fase_retorno.retorno.tipo = "ok"
    /\ RGt(fase_retorno.retorno.valor.energia_total_mj, Zero)
    /\ biomassas \in Catalogos
    /\ fatores = TabelaReferencia

\* A failing get_biomassa_info call that left the catalog as loaded.
C20_WitnessFalha ==
    /\ ChamouFase("get_biomassa_info")
    /\ fase_retorno.tipo = "erro"
    /\ biomassas \in Catalogos

\* The catalog the engine was constructed on (the catalogs differ in their ids).
CatalogoInicial == CHOOSE c \in Catalogos : DOMAIN c = DOMAIN biomassas

\* C21: a calculate call, whatever was calculated before it on the engine,
\* returns what a freshly constructed engine returns for the same input; and
\* calling again with the very request object the call was given (as the call
\* left it) returns the same result once more.
C21_Idempotencia ==
    ChamouCalcular =>
        /\ fase_retorno.retorno =
              calcular_intensidade_carbono(TabelaReferencia, CatalogoInicial,
                                           fase_chamada.dados).retorno
        /\ calcular_intensidade_carbono(fatores, biomassas,
                                        fase_retorno.entrada).retorno
              = fase_retorno.retorno

\* A call that returned a result and changed its request: calling again with
\* the changed request object is the case at hand.
C21_Witness ==
    /\ ChamouCalcular
    /\ fase_retorno.retorno.tipo = "ok"
    /\ fase_retorno.entrada # fase_chamada.dados
    /\ RGt(fase_retorno.retorno.valor.resultados_por_fase.distribuicao.emissoes_kg_co2, Zero)

\* C25: when calculate fails (biomass id absent, empty or not in the catalog)
\* it returns no result, no phase calculator has been invoked, and the request
\* and its phase records are as they were before the call.
C25_SemResultadoParcial ==
    ( /\ ChamouCalcular
      /\ Get(fase_chamada.dados, "biomassa", "") \notin DOMAIN biomassas )
    =>
        /\ fase_retorno.retorno.tipo = "erro"
        /\ "valor" \notin DOMAIN fase_retorno.retorno
        /\ fase_retorno.fases_invocadas = <<>>
        /\ fase_retorno.entrada = fase_chamada.dados

\* A failing call for a request that holds phase records.
C25_Witness ==
    /\ ChamouCalcular
    /\ Get(fase_chamada.dados, "biomassa", "") = "invalida"
    /\ {"fase_agricola", "fase_distribuicao"} \subseteq DOMAIN fase_chamada.dados
    /\ fase_retorno.retorno.tipo = "erro"

----------------------------------------------------------------------------
(* Concurrent callers of calcular_intensidade_carbono on one engine        *)
(* (specification SpecConcorrente).  Each caller runs the method on its    *)
(* own request; the method's local variables live in the caller's frame,   *)
(* the factor table and the catalog are the engine's.  A step is one       *)
(* statement group of the method; steps of different callers interleave    *)
(* freely.                                                                 *)

Chamadores == {1, 2}

PedidosConcorrentes ==
    Junta(Junta(
        Opcional("biomassa", {"pinus", "amendoim", "invalida"}),
        Campo("fase_agricola",
            { [quantidade_biomassa_kg |-> q, distancia_transporte_km |-> R(50)] :
                 q \in Quantidades })),
        Campo("fase_distribuicao",
            { [modal_transporte |-> "rodoviario", distancia_km |-> R(200)] }))

\* The frame of a call that has just been entered: pedido is the request as
\* it was passed, dados_entrada the caller's request object as it is now.
QuadroInicial(pedido) ==
    [ pc |-> "resolver", pedido |-> pedido, dados_entrada |-> pedido,
      nome_biomassa |-> "", prep |-> Nenhum,
      resultado_agricola |-> Nenhum, resultado_industrial |-> Nenhum,
      resultado_distribuicao |-> Nenhum, resultado_uso |-> Nenhum,
      retorno |-> Nenhum ]

\* Mutant: the phase record is kept on the shared engine, so a caller reads
\* the record that another caller prepared last.
DadosDaFase_NoMotor(qs, c, fase) ==
    LET outros == {d \in DOMAIN qs : d # c /\ qs[d].prep # Nenhum}
    IN  IF outros = {} THEN qs[c].prep[fase]
        ELSE qs[CHOOSE d \in outros : TRUE].prep[fase]

\* dados_agricola, dados_industrial, dados_distribuicao, dados_uso: local
\* variables of the call, read from the caller's own frame.
DadosDaFase(qs, c, fase) == qs[c].prep[fase]

InitConcorrente ==
    /\ fatores = TabelaReferencia
    /\ biomassas = BiomassasPreset
    /\ dados_entrada = Vazio
    /\ validacao = Nenhum
    /\ resultado = Nenhum
    /\ fase_chamada = Nenhum
    /\ fase_retorno = Nenhum
    /\ quadros = Vazio
    /\ sessao = Nenhum

\* A caller enters calcular_intensidade_carbono(pedido).
Invocar(c) ==
    /\ c \notin DOMAIN quadros
    /\ \E pedido \in PedidosConcorrentes :
          quadros' = Put(quadros, c, QuadroInicial(pedido))
    /\ UNCHANGED <<sessao, fatores, biomassas, dados_entrada, validacao, resultado,
                   fase_chamada, fase_retorno>>

\* Lines 104-108: the id is read and looked up in the catalog.
ResolverBiomassa(c) ==
    /\ c \in DOMAIN quadros
    /\ quadros[c].pc = "resolver"
    /\ LET q    == quadros[c]
           nome == Get(q.dados_entrada, "biomassa", "")
       IN  IF nome = ""
           THEN quadros' = [quadros EXCEPT ![c].pc = "fim",
                              ![c].retorno = Erro("ValueError",
                                                  "Nome da biomassa nao fornecido")]
           ELSE LET info == get_biomassa_info(biomassas, nome)
                IN  IF info.tipo = "erro"
                    THEN quadros' = [quadros EXCEPT ![c].pc = "fim",
                                                    ![c].retorno = info]
                    ELSE quadros' = [quadros EXCEPT ![c].pc = "preparar",
                                                    ![c].nome_biomassa = nome]
    /\ UNCHANGED <<sessao, fatores, biomassas, dados_entrada, validacao, resultado,
                   fase_chamada, fase_retorno>>

\* Lines 110-121: the phase records are taken from the request and patched.
\* biomassa_info is the catalog's entry itself.
Preparar(c) ==
    /\ c \in DOMAIN quadros
    /\ quadros[c].pc = "preparar"
    /\ LET q    == quadros[c]
           prep == PrepararDados(q.dados_entrada, biomassas[q.nome_biomassa])
       IN  /\ quadros' = [quadros EXCEPT ![c].pc = "agricola",
                                         ![c].prep = prep,
                                         ![c].dados_entrada = prep.entrada]
           /\ biomassas' = [biomassas EXCEPT ![q.nome_biomassa] = prep.biomassa_info]
    /\ UNCHANGED <<sessao, fatores, dados_entrada, validacao, resultado,
                   fase_chamada, fase_retorno>>

\* Line 124.
CalcularFaseAgricola(c) ==
    /\ c \in DOMAIN quadros
    /\ quadros[c].pc = "agricola"
    /\ quadros' = [quadros EXCEPT ![c].pc = "industrial",
                      ![c].resultado_agricola =
                          FaseAgricola_calcular_emissoes(fatores,
                              DadosDaFase(quadros, c, "agricola"))]
    /\ UNCHANGED <<sessao, fatores, biomassas, dados_entrada, validacao, resultado,
                   fase_chamada, fase_retorno>>

\* Line 125.
CalcularFaseIndustrial(c) ==
    /\ c \in DOMAIN quadros
    /\ quadros[c].pc = "industrial"
    /\ quadros' = [quadros EXCEPT ![c].pc = "distribuicao",
                      ![c].resultado_industrial =
                          FaseIndustrial_calcular_emissoes(fatores,
                              DadosDaFase(quadros, c, "industrial"))]
    /\ UNCHANGED <<sessao, fatores, biomassas, dados_entrada, validacao, resultado,
                   fase_chamada, fase_retorno>>

\* Line 126.
CalcularFaseDistribuicao(c) ==
    /\ c \in DOMAIN quadros
    /\ quadros[c].pc = "distribuicao"
    /\ quadros' = [quadros EXCEPT ![c].pc = "uso",
                      ![c].resultado_distribuicao =
                          FaseDistribuicao_calcular_emissoes(fatores,
                              DadosDaFase(quadros, c, "distribuicao"))]
    /\ UNCHANGED <<sessao, fatores, biomassas, dados_entrada, validacao, resultado,
                   fase_chamada, fase_retorno>>

\* Line 127.
CalcularFaseUso(c) ==
    /\ c \in DOMAIN quadros
    /\ quadros[c].pc = "uso"
    /\ quadros' = [quadros EXCEPT ![c].pc = "agregar",
                      ![c].resultado_uso =
                          FaseUso_calcular_emissoes(fatores,
                              DadosDaFase(quadros, c, "uso"))]
    /\ UNCHANGED <<sessao, fatores, biomassas, dados_entrada, validacao, resultado,
                   fase_chamada, fase_retorno>>

\* Lines 130-209: the four results are combined and the result is returned.
Agregar(c) ==
    /\ c \in DOMAIN quadros
    /\ quadros[c].pc = "agregar"
    /\ LET q == quadros[c]
       IN  quadros' = [quadros EXCEPT ![c].pc = "fim",
                          ![c].retorno =
                              Ok(AgregarResultados(fatores, q.nome_biomassa,
                                     biomassas[q.nome_biomassa],
                                     DadosDaFase(quadros, c, "uso"),
                                     q.resultado_agricola, q.resultado_industrial,
                                     q.resultado_distribuicao, q.resultado_uso))]
    /\ UNCHANGED <<sessao, fatores, biomassas, dados_entrada, validacao, resultado,
                   fase_chamada, fase_retorno>>

\* The caller takes what the call returned or raised; the frame is gone.
Receber(c) ==
    /\ c \in DOMAIN quadros
    /\ quadros[c].pc = "fim"
    /\ quadros' = [d \in DOMAIN quadros \ {c} |-> quadros[d]]
    /\ UNCHANGED <<sessao, fatores, biomassas, dados_entrada, validacao, resultado,
                   fase_chamada, fase_retorno>>

NextConcorrente ==
    \E c \in Chamadores :
        \/ Invocar(c)
        \/ ResolverBiomassa(c)
        \/ Preparar(c)
        \/ CalcularFaseAgricola(c)
        \/ CalcularFaseIndustrial(c)
        \/ CalcularFaseDistribuicao(c)
        \/ CalcularFaseUso(c)
        \/ Agregar(c)
        \/ Receber(c)

SpecConcorrente == InitConcorrente /\ [][NextConcorrente]_vars

\* What the call of caller c leaves when it runs alone on the engine.
Sozinho(c) == calcular_intensidade_carbono(fatores, biomassas, quadros[c].pedido)

QuadroDe(qs, c) == IF c \in DOMAIN qs THEN qs[c] ELSE Nenhum

\* C22: under every interleaving of the callers' steps, a call that has
\* finished leaves the result (or failure) and the request that the same
\* request yields when run alone; a step changes the frame of one caller at
\* most, and the engine's tables stay as constructed.
C22_ChamadasIsoladas ==
    /\ [](\A c \in DOMAIN quadros :
             quadros[c].pc = "fim" =>
                 /\ quadros[c].retorno = Sozinho(c).retorno
                 /\ quadros[c].dados_entrada = Sozinho(c).entrada)
    /\ [][ /\ Cardinality({c \in Chamadores :
                              QuadroDe(quadros', c) # QuadroDe(quadros, c)}) <= 1
           /\ fatores' = fatores
           /\ biomassas' = biomassas ]_vars

\* Caller 1 has its result while caller 2, with another biomass and another
\* quantity, is between two phase calculators.
C22_Witness ==
    /\ DOMAIN quadros = Chamadores
    /\ quadros[1].pc = "fim"
    /\ quadros[1].retorno.tipo = "ok"
    /\ quadros[2].pc \in {"industrial", "distribuicao", "uso"}
    /\ quadros[2].nome_biomassa # quadros[1].nome_biomassa
    /\ quadros[2].pedido["fase_agricola"] # quadros[1].pedido["fase_agricola"]

----------------------------------------------------------------------------
(* A caller that keeps and modifies the result it was returned             *)
(* (specification SpecReferencias).  resultado is the result object the    *)
(* caller holds.                                                           *)

PedidosReferencias ==
    Junta(Junta(
        Campo("biomassa", {"pinus", "amendoim"}),
        Campo("fase_agricola",
            { [quantidade_biomassa_kg |-> q, distancia_transporte_km |-> R(50)] :
                 q \in Quantidades })),
        Campo("fase_distribuicao",
            { [modal_transporte |-> "rodoviario", distancia_km |-> R(200)] }))

\* Values a caller may write into a result it holds.
ValoresEscritos == {R(10), R(20)}

\* get_biomassa_info returns self.biomassas[nome] itself and the result stores
\* it under 'biomassa_info' without copying: a write through the result's
\* biomassa_info is a write to the catalog's entry.
EscreverEmBiomassaInfo(bs, nome, campo, v) == [bs EXCEPT ![nome][campo] = v]

InitReferencias ==
    /\ fatores = TabelaReferencia
    /\ biomassas = BiomassasPreset
    /\ dados_entrada = Vazio
    /\ validacao = Nenhum
    /\ resultado = Nenhum
    /\ fase_chamada = Nenhum
    /\ fase_retorno = Nenhum
    /\ quadros = Vazio
    /\ sessao = Nenhum

\* resultado = calculadora.calcular_intensidade_carbono(pedido)
CalcularEGuardar ==
    /\ \E pedido \in PedidosReferencias :
          LET c == calcular_intensidade_carbono(fatores, biomassas, pedido)
          IN  /\ fase_chamada' = Chamada("calcular_intensidade_carbono", pedido)
              /\ fase_retorno' = [retorno |-> c.retorno, entrada |-> c.entrada,
                                   fases_invocadas |-> c.fases_invocadas]
              /\ resultado' = c.retorno
              /\ biomassas' = c.biomassas
    /\ UNCHANGED <<quadros, sessao, fatores, dados_entrada, validacao>>

\* resultado['biomassa_info']['pci'] = v
ModificarBiomassaInfo ==
    /\ resultado.tipo = "ok"
    /\ \E v \in ValoresEscritos :
          /\ resultado' = [resultado EXCEPT !.valor.biomassa_info.pci = v]
          /\ biomassas' = EscreverEmBiomassaInfo(biomassas, resultado.valor.biomassa,
                                                 "pci", v)
          /\ fase_chamada' = Chamada("modificar", [parte |-> "biomassa_info", valor |-> v])
    /\ fase_retorno' = Nenhum
    /\ UNCHANGED <<quadros, sessao, fatores, dados_entrada, validacao>>

\* resultado['resultados_por_fase']['agricola']['detalhamento']['transporte'] = v
\* The dictionary was built by the phase calculator for this call alone.
ModificarDetalhamento ==
    /\ resultado.tipo = "ok"
    /\ \E v \in ValoresEscritos :
          /\ resultado' = [resultado EXCEPT
                 !.valor.resultados_por_fase.agricola.detalhamento.transporte = v]
          /\ fase_chamada' = Chamada("modificar", [parte |-> "detalhamento", valor |-> v])
    /\ fase_retorno' = Nenhum
    /\ UNCHANGED <<quadros, sessao, fatores, biomassas, dados_entrada, validacao>>

NextReferencias ==
    \/ CalcularEGuardar
    \/ ModificarBiomassaInfo
    \/ ModificarDetalhamento

SpecReferencias == InitReferencias /\ [][NextReferencias]_vars

\* C23 as claimed: whatever a caller writes into results it was returned, the
\* catalog stays as loaded and a later call returns what the request yields
\* on the loaded tables.
C23_Original ==
    /\ biomassas = BiomassasPreset
    /\ ChamouCalcular =>
          fase_retorno.retorno =
              calcular_intensidade_carbono(TabelaReferencia, BiomassasPreset,
                                           fase_chamada.dados).retorno

----------------------------------------------------------------------------
(* Engines constructed with an incomplete factor table (specification      *)
(* SpecTabelas): the table holds any subset of the ten factors that the    *)
(* engine and its phase calculators look up.                               *)

NomesConsultados ==
    {"fator_fertilizante_n", "fator_pesticida", "fator_transporte_rodoviario",
     "fator_transporte_maritimo", "fator_transporte_ferroviario",
     "fator_eletricidade_br", "fator_diesel", "fator_agua", "fator_combustao",
     "ci_fossil_referencia"}

\* The rows of a table whose parameter is in nomes.
Restrita(f, nomes) == [n \in DOMAIN f \cap nomes |-> f[n]]

TabelasParciais == {Restrita(TabelaAlternativa, nomes) : nomes \in SUBSET NomesConsultados}

\* Requests in which every factor meets a non-zero input.
PedidosTabelas ==
    { [ biomassa |-> b,
        fase_agricola |-> InsumosBasico @@ [quantidade_biomassa_kg |-> R(1000)],
        fase_industrial |-> [energia_eletrica_kwh |-> R(500),
                             energia_termica_mj |-> R(1900), agua_m3 |-> R(5000)],
        fase_distribuicao |-> [modal_transporte |-> m, distancia_km |-> R(200)],
        fase_uso |-> [tipo_combustao |-> "caldeira"] ] :
      b \in {"pinus"}, m \in {"rodoviario", "maritimo", "ferroviario"} }

InitTabelas ==
    /\ fatores \in TabelasParciais
    /\ biomassas = BiomassasPreset
    /\ dados_entrada = Vazio
    /\ validacao = Nenhum
    /\ resultado = Nenhum
    /\ fase_chamada = Nenhum
    /\ fase_retorno = Nenhum
    /\ quadros = Vazio
    /\ sessao = Nenhum

\* calculadora.calcular_intensidade_carbono(pedido) on that engine
CalcularComTabela ==
    /\ \E pedido \in PedidosTabelas :
          LET c == calcular_intensidade_carbono(fatores, biomassas, pedido)
          IN  /\ fase_chamada' = Chamada("calcular_intensidade_carbono", pedido)
              /\ fase_retorno' = [retorno |-> c.retorno, entrada |-> c.entrada,
                                   fases_invocadas |-> c.fases_invocadas]
              /\ biomassas' = c.biomassas
    /\ UNCHANGED <<quadros, sessao, fatores, dados_entrada, validacao, resultado>>

SpecTabelas == InitTabelas /\ [][CalcularComTabela]_vars

\* The defaults the claim lists, as a complete table.
PadroesDeclarados ==
    [ fator_fertilizante_n         |-> R(6540),
      fator_pesticida              |-> R(10000),
      fator_transporte_rodoviario  |-> R(62),
      fator_transporte_maritimo    |-> Rat(17, 2),
      fator_transporte_ferroviario |-> R(22),
      fator_eletricidade_br        |-> R(95),
      fator_diesel                 |-> R(2680),
      fator_agua                   |-> Rat(9, 25),
      fator_combustao              |-> Zero,
      ci_fossil_referencia         |-> R(85) ]

Completada(f) ==
    [ n \in DOMAIN f \cup DOMAIN PadroesDeclarados |->
        IF n \in DOMAIN f THEN f[n] ELSE Entrada(PadroesDeclarados[n], "", "padrao") ]

\* C24: on an engine whose factor table lacks any subset of the factor names,
\* calculate with a catalog biomass id returns a full result, and it is the
\* result of the engine whose table holds the listed default for every
\* missing name.
C24_PadroesDosFatores ==
    ChamouCalcular =>
        /\ fase_retorno.retorno.tipo = "ok"
        /\ DOMAIN fase_retorno.retorno.valor = CamposDoResultado
        /\ fase_retorno.retorno =
              calcular_intensidade_carbono(Completada(fatores), BiomassasPreset,
                                           fase_chamada.dados).retorno

\* A result computed with the empty table by rail: every lookup fell back.
C24_Witness ==
    /\ ChamouCalcular
    /\ fatores = TabelaVazia
    /\ fase_chamada.dados["fase_distribuicao"].modal_transporte = "ferroviario"
    /\ fase_retorno.retorno.tipo = "ok"
    /\ RGt(fase_retorno.retorno.valor.emissoes_totais_kg_co2, Zero)

----------------------------------------------------------------------------
(* The Streamlit session of app.py (specification SpecApp).  sessao holds  *)
(* st.session_state: resultados, dados_entrada and historico, and the wall *)
(* clock that datetime.now() reads.  The engine of the session is built    *)
(* from the preset catalog or from a catalog file that holds pinus only;   *)
(* the handler is entered with any of the ids the selectbox offers.        *)

MaxCliques == 3

OpcoesDeBiomassa == {"pinus", "eucalipto"}

\* What the widgets hand to the handler: every field present, no number
\* below the widgets' min_value of 0.
PedidosApp ==
    { [ biomassa |-> b,
        fase_agricola |-> [ quantidade_biomassa_kg |-> q,
                            distancia_transporte_km |-> R(50),
                            uso_fertilizantes_kg |-> Zero,
                            uso_pesticidas_kg |-> Zero,
                            luc_dluc_opcional_kg_co2 |-> Zero ],
        fase_industrial |-> [ energia_eletrica_kwh |-> Zero,
                              energia_termica_mj |-> Zero, agua_m3 |-> Zero ],
        fase_distribuicao |-> [modal_transporte |-> "rodoviario",
                               distancia_km |-> R(200)],
        fase_uso |-> [tipo_combustao |-> "caldeira"] ] :
      b \in OpcoesDeBiomassa, q \in {Zero, R(1000)} }

\* resultados.copy() with 'timestamp' and 'dados_entrada' added.
EntradaDoHistorico(resultados, agora, dados) ==
    resultados @@ [timestamp |-> agora, dados_entrada |-> dados]

\* Mutant: the position in the displayed (reversed) list is used as it is.
IndiceReal_Exibido(n, idx) == idx

\* real_idx = len(historico) - 1 - idx
IndiceReal(n, idx) == n - 1 - idx

\* list.pop(i), i counted from 0
Pop(h, i) == SubSeq(h, 1, i) \o SubSeq(h, i + 2, Len(h))

\* reversed(historico)
Invertido(h) == [j \in 1..Len(h) |-> h[Len(h) + 1 - j]]

InitApp ==
    /\ fatores = TabelaReferencia
    /\ biomassas \in {BiomassasPreset, CatalogoReduzido}
    /\ dados_entrada = Vazio
    /\ validacao = Nenhum
    /\ resultado = Nenhum
    /\ fase_chamada = Nenhum
    /\ fase_retorno = Nenhum
    /\ quadros = Vazio
    /\ sessao = [resultados |-> Nenhum, dados_entrada |-> Nenhum,
                 historico |-> <<>>, relogio |-> 0]

\* The 'Calcular' button: the request is built, validated and, when valid,
\* calculated; a result is stored and appended to the history.
ClicarCalcular ==
    /\ sessao.relogio < MaxCliques
    /\ \E dados \in PedidosApp :
          LET v == validar_completo(dados)
              c == calcular_intensidade_carbono(fatores, biomassas, dados)
              agora == sessao.relogio + 1
          IN  /\ fase_chamada' = Chamada("calcular", dados)
              /\ IF ~v[1]
                 THEN /\ fase_retorno' = [valido |-> FALSE, calculo |-> Nenhum]
                      /\ UNCHANGED <<sessao, biomassas>>
                 ELSE /\ fase_retorno' = [valido |-> TRUE, calculo |-> c.retorno]
                      /\ biomassas' = c.biomassas
                      /\ IF c.retorno.tipo = "ok"
                         THEN sessao' =
                                [ resultados    |-> c.retorno.valor,
                                  dados_entrada |-> c.entrada,
                                  historico     |->
                                      Append(sessao.historico,
                                             EntradaDoHistorico(c.retorno.valor,
                                                                agora, c.entrada)),
                                  relogio       |-> agora ]
                         ELSE UNCHANGED sessao
    /\ UNCHANGED <<quadros, fatores, dados_entrada, validacao, resultado>>

\* 'Limpar Todo Historico'
LimparHistorico ==
    /\ Len(sessao.historico) > 0
    /\ sessao' = [sessao EXCEPT !.historico = <<>>]
    /\ fase_chamada' = Chamada("limpar", Vazio)
    /\ fase_retorno' = Nenhum
    /\ UNCHANGED <<quadros, fatores, biomassas, dados_entrada, validacao, resultado>>

\* 'Excluir' next to the idx-th displayed entry
ExcluirDoHistorico ==
    /\ \E idx \in 0..(Len(sessao.historico) - 1) :
          LET exibido  == Invertido(sessao.historico)[idx + 1]
              real_idx == IndiceReal(Len(sessao.historico), idx)
          IN  /\ sessao' = [sessao EXCEPT !.historico = Pop(sessao.historico, real_idx)]
              /\ fase_chamada' = Chamada("excluir", [escolhido |-> exibido])
    /\ fase_retorno' = Nenhum
    /\ UNCHANGED <<quadros, fatores, biomassas, dados_entrada, validacao, resultado>>

\* 'Carregar' next to the idx-th displayed entry
CarregarDoHistorico ==
    /\ \E idx \in 0..(Len(sessao.historico) - 1) :
          LET exibido == Invertido(sessao.historico)[idx + 1]
          IN  /\ sessao' = [sessao EXCEPT !.resultados = exibido,
                                         !.dados_entrada = exibido.dados_entrada]
              /\ fase_chamada' = Chamada("carregar", [escolhido |-> exibido])
    /\ fase_retorno' = Nenhum
    /\ UNCHANGED <<quadros, fatores, biomassas, dados_entrada, validacao, resultado>>

NextApp ==
    \/ ClicarCalcular
    \/ LimparHistorico
    \/ ExcluirDoHistorico
    \/ CarregarDoHistorico

SpecApp == InitApp /\ [][NextApp]_vars

\* The history before position i (counted from 1), then the history after it.
SemPosicao(h, i) == [j \in 1..(Len(h) - 1) |-> IF j < i THEN h[j] ELSE h[j + 1]]

SoResultado(e) == [k \in CamposDoResultado |-> e[k]]

PassoCalcular ==
    fase_chamada'.fase = "calcular" =>
        IF fase_retorno'.calculo.tipo # "ok"
        THEN sessao' = sessao
        ELSE LET h  == sessao.historico
                 h2 == sessao'.historico
             IN  /\ sessao'.resultados = fase_retorno'.calculo.valor
                 /\ Len(h2) = Len(h) + 1
                 /\ SubSeq(h2, 1, Len(h)) = h
                 /\ SoResultado(h2[Len(h2)]) = fase_retorno'.calculo.valor
                 /\ h2[Len(h2)].dados_entrada = sessao'.dados_entrada

PassoExcluir ==
    fase_chamada'.fase = "excluir" =>
        /\ \E i \in 1..Len(sessao.historico) :
              /\ sessao.historico[i] = fase_chamada'.dados.escolhido
              /\ sessao'.historico = SemPosicao(sessao.historico, i)
        /\ sessao'.resultados = sessao.resultados
        /\ sessao'.dados_entrada = sessao.dados_entrada

PassoLimpar ==
    fase_chamada'.fase = "limpar" =>
        /\ sessao'.historico = <<>>
        /\ sessao'.resultados = sessao.resultados
        /\ sessao'.dados_entrada = sessao.dados_entrada

PassoCarregar ==
    fase_chamada'.fase = "carregar" =>
        /\ sessao'.historico = sessao.historico
        /\ sessao'.resultados = fase_chamada'.dados.escolhido

\* C26: in the session of app.py, after any sequence of clicks on Calcular,
\* Excluir, Limpar and Carregar: the engine is invoked exactly when the
\* validator accepted that request; a rejected request or a failing
\* calculation leaves resultados, dados_entrada and historico as they were; a
\* successful calculation sets resultados and appends one entry, built from
\* that result, to the end of the history; Excluir removes the chosen entry and
\* keeps the others in order; Limpar empties the history.
C26_FluxoDaSessao ==
    /\ [](ChamouFase("calcular") =>
             /\ fase_retorno.valido = validar_completo(fase_chamada.dados)[1]
             /\ (fase_retorno.calculo # Nenhum) <=> fase_retorno.valido
             /\ fase_retorno.calculo # Nenhum =>
                   fase_retorno.calculo.tipo \in {"ok", "erro"})
    /\ [][PassoCalcular /\ PassoExcluir /\ PassoLimpar /\ PassoCarregar]_vars

\* Three calculations were stored and the second one was then deleted.
C26_Witness ==
    /\ ChamouFase("excluir")
    /\ Len(sessao.historico) = 2
    /\ sessao.historico[1].timestamp = 1
    /\ sessao.historico[2].timestamp = 3
    /\ sessao.resultados = SoResultado(sessao.historico[2])

\* The validator accepted the request and the calculation failed, with a
\* result of an earlier calculation in the session.
C26_WitnessFalha ==
    /\ ChamouFase("calcular")
    /\ fase_retorno.valido
    /\ fase_retorno.calculo.tipo = "erro"

\* The validator rejected the request while the history holds an entry.
C26_WitnessRejeitado ==
    /\ ChamouFase("calcular")
    /\ ~fase_retorno.valido
    /\ Len(sessao.historico) = 1

----------------------------------------------------------------------------
(* The four phase calls of calcular_intensidade_carbono in any order       *)
(* (specification SpecMotor).                                              *)

\* The call's data while the phase calculators run: the four prepared
\* records and the results obtained so far.
EstadoDasFases(prep) ==
    [ registros  |-> [ agricola |-> prep.agricola, industrial |-> prep.industrial,
                       distribuicao |-> prep.distribuicao, uso |-> prep.uso ],
      resultados |-> Vazio ]

CalculadoraDaFase(f, fase, dados) ==
    CASE fase = "agricola"     -> FaseAgricola_calcular_emissoes(f, dados)
      [] fase = "industrial"   -> FaseIndustrial_calcular_emissoes(f, dados)
      [] fase = "distribuicao" -> FaseDistribuicao_calcular_emissoes(f, dados)
      [] fase = "uso"          -> FaseUso_calcular_emissoes(f, dados)

\* Mutant: the use calculator adds the distribution emissions when the
\* distribution calculator has already run.
InvocarFase_LeOutraFase(f, fase, est) ==
    LET r == CalculadoraDaFase(f, fase, est.registros[fase])
    IN  [est EXCEPT !.resultados =
            Put(est.resultados, fase,
                IF fase = "uso" /\ "distribuicao" \in DOMAIN est.resultados
                THEN [r EXCEPT !.emissoes_kg_co2 =
                         RAdd(r.emissoes_kg_co2,
                              est.resultados["distribuicao"].emissoes_kg_co2)]
                ELSE r)]

\* resultado_x = self.fase_x.calcular_emissoes(dados_x): the calculator is
\* given its own record and the factor table, reads the record with .get()
\* and builds a new result; the records and the other results are untouched.
InvocarFase(f, fase, est) ==
    [est EXCEPT !.resultados =
        Put(est.resultados, fase, CalculadoraDaFase(f, fase, est.registros[fase]))]

RECURSIVE ExecutarFases(_, _, _)
ExecutarFases(f, est, ordem) ==
    IF ordem = <<>> THEN est
    ELSE ExecutarFases(f, InvocarFase(f, Head(ordem), est), Tail(ordem))

Ordens ==
    { o \in [1..4 -> Fases] : \A i, j \in 1..4 : i # j => o[i] # o[j] }

\* The result of the call when its phase calculators run in the given order.
ResultadoNaOrdem(f, bs, dados, ordem) ==
    LET nome == dados["biomassa"]
        prep == PrepararDados(dados, bs[nome])
        fim  == ExecutarFases(f, EstadoDasFases(prep), ordem)
    IN  [ fases |-> fim.resultados,
          registros |-> fim.registros,
          valor |-> AgregarResultados(f, nome, bs[nome], fim.registros["uso"],
                                      fim.resultados["agricola"],
                                      fim.resultados["industrial"],
                                      fim.resultados["distribuicao"],
                                      fim.resultados["uso"]) ]

OrdemCanonica == <<"agricola", "industrial", "distribuicao", "uso">>

\* C27: for every request that calculate answers, running the four phase
\* calculators in any of the 24 orders after the injection yields the
\* per-phase results of the canonical order and the AggregateResult that the
\* call returned, and leaves the four prepared records as they were.
C27_OrdemDasFases ==
    ( ChamouCalcular /\ fase_retorno.retorno.tipo = "ok" ) =>
        /\ Cardinality(Ordens) = 24
        /\ \A ordem \in Ordens :
              LET r == ResultadoNaOrdem(fatores, biomassas, fase_chamada.dados, ordem)
                  c == ResultadoNaOrdem(fatores, biomassas, fase_chamada.dados,
                                        OrdemCanonica)
              IN  /\ r.fases = c.fases
                  /\ r.registros = c.registros
                  /\ r.registros = EstadoDasFases(
                         PrepararDados(fase_chamada.dados,
                                       biomassas[fase_chamada.dados["biomassa"]])).registros
                  /\ r.valor = fase_retorno.retorno.valor

\* A call whose distribution and agricultural phases both emit.
C27_Witness ==
    /\ ChamouCalcular
    /\ fase_retorno.retorno.tipo = "ok"
    /\ RGt(fase_retorno.retorno.valor.resultados_por_fase.distribuicao.emissoes_kg_co2, Zero)
    /\ RGt(fase_retorno.retorno.valor.resultados_por_fase.agricola.emissoes_kg_co2, Zero)

----------------------------------------------------------------------------
(* Requests whose phase records already carry the fields that the engine   *)
(* injects (specification SpecInjecao).                                    *)

PedidosComInjetados ==
    { [ biomassa |-> b,
        fase_agricola |-> a @@ [distancia_transporte_km |-> R(50)],
        fase_distribuicao |-> d @@ [modal_transporte |-> "rodoviario",
                                    distancia_km |-> R(200)],
        fase_uso |-> u @@ [tipo_combustao |-> "caldeira"] ] :
      b \in {"pinus", "amendoim"},
      a \in Junta(Opcional("quantidade_biomassa_kg", Quantidades),
                  Opcional("fator_biomassa_agricola", {R(50)})),
      d \in Opcional("quantidade_biomassa_kg", {R(500)}),
      u \in Junta(Opcional("quantidade_biomassa_kg", {R(500)}),
                  Opcional("pci", {R(10)})) }

InitInjecao ==
    /\ fatores = TabelaAlternativa
    /\ biomassas = BiomassasPreset
    /\ dados_entrada \in PedidosComInjetados
    /\ validacao = Nenhum
    /\ resultado = Nenhum
    /\ fase_chamada = Nenhum
    /\ fase_retorno = Nenhum
    /\ quadros = Vazio
    /\ sessao = Nenhum

\* calculadora.calcular_intensidade_carbono(dados_entrada), on the caller's
\* request object as it is now; fase_chamada keeps the request as passed.
CalcularComInjetados ==
    /\ LET c == calcular_intensidade_carbono(fatores, biomassas, dados_entrada)
       IN  /\ fase_chamada' = Chamada("calcular_intensidade_carbono", dados_entrada)
           /\ fase_retorno' = [retorno |-> c.retorno, entrada |-> c.entrada,
                                fases_invocadas |-> c.fases_invocadas]
           /\ dados_entrada' = c.entrada
           /\ biomassas' = c.biomassas
    /\ UNCHANGED <<quadros, sessao, fatores, validacao, resultado>>

SpecInjecao == InitInjecao /\ [][CalcularComInjetados]_vars

\* C28: whatever the caller's phase records hold under fator_biomassa_agricola,
\* quantidade_biomassa_kg and pci, the agricultural phase is computed with
\* the profile's agricultural factor, the distribution and use phases with
\* the agricultural record's quantity (0 when absent) and the use phase and
\* the total energy with the profile's PCI.
C28_PerfilPrevalece ==
    ChamouCalcular =>
        LET d    == fase_chamada.dados
            info == biomassas[d["biomassa"]]
            q    == Get(d["fase_agricola"], "quantidade_biomassa_kg", Zero)
            r    == fase_retorno.retorno.valor.resultados_por_fase
            ra   == FaseAgricola_calcular_emissoes(fatores,
                        Put(d["fase_agricola"], "fator_biomassa_agricola",
                            info.fator_biomassa_agricola))
            rd   == FaseDistribuicao_calcular_emissoes(fatores,
                        Put(d["fase_distribuicao"], "quantidade_biomassa_kg", q))
            ru   == FaseUso_calcular_emissoes(fatores,
                        Put(Put(d["fase_uso"], "quantidade_biomassa_kg", q),
                            "pci", info.pci))
        IN  /\ fase_retorno.retorno.tipo = "ok"
            /\ r.agricola.emissoes_kg_co2 = ra.emissoes_kg_co2
            /\ r.agricola.detalhamento = ra.detalhamento
            /\ r.agricola.detalhamento.biomassa =
                  RDiv(RMul(q, info.fator_biomassa_agricola), Mil)
            /\ r.distribuicao.emissoes_kg_co2 = rd.emissoes_kg_co2
            /\ r.distribuicao.detalhamento = rd.detalhamento
            /\ r.uso.emissoes_kg_co2 = ru.emissoes_kg_co2
            /\ r.uso.detalhamento = ru.detalhamento
            /\ r.uso.detalhamento.energia_gerada_mj = RMul(q, info.pci)
            /\ fase_retorno.retorno.valor.energia_total_mj = RMul(q, info.pci)

\* The caller supplied all three fields with values other than the profile's
\* and the agricultural quantity.
C28_Witness ==
    /\ ChamouCalcular
    /\ fase_retorno.retorno.tipo = "ok"
    /\ Get(fase_chamada.dados["fase_agricola"], "fator_biomassa_agricola", Zero) = R(50)
    /\ Get(fase_chamada.dados["fase_agricola"], "quantidade_biomassa_kg", Zero) = R(1000)
    /\ Get(fase_chamada.dados["fase_distribuicao"], "quantidade_biomassa_kg", Zero) = R(500)
    /\ Get(fase_chamada.dados["fase_uso"], "quantidade_biomassa_kg", Zero) = R(500)
    /\ Get(fase_chamada.dados["fase_uso"], "pci", Zero) = R(10)
    /\ RGt(fase_retorno.retorno.valor.resultados_por_fase.uso.emissoes_kg_co2, Zero)

----------------------------------------------------------------------------
(* The breakdown of a phase result (specification SpecFases).              *)

\* The unit of each 'detalhamento' entry, from the expression the phase
\* calculator stores under it: an emission in kg CO2, the distance and the
\* energy the calculator was given or derived, or a label.
UnidadeDoComponente ==
    [ biomassa          |-> "kg CO2",
      fertilizantes     |-> "kg CO2",
      pesticidas        |-> "kg CO2",
      transporte        |-> "kg CO2",
      luc_dluc          |-> "kg CO2",
      energia_eletrica  |-> "kg CO2",
      energia_termica   |-> "kg CO2",
      agua              |-> "kg CO2",
      combustao         |-> "kg CO2",
      modal             |-> "texto",
      distancia_km      |-> "km",
      tipo_combustao    |-> "texto",
      energia_gerada_mj |-> "MJ" ]

\* C29 as claimed: every entry of the breakdown of every phase result is a
\* quantity in kg CO2: none is a label or a quantity in another unit.
C29_Original ==
    fase_chamada.tipo = "ok" =>
        \A k \in DOMAIN fase_retorno.detalhamento :
            UnidadeDoComponente[k] = "kg CO2"

----------------------------------------------------------------------------
(* Absent numeric fields of a phase record (specification SpecFases).      *)

CamposNumericosDaFase ==
    [ agricola     |-> {"quantidade_biomassa_kg", "distancia_transporte_km",
                        "uso_fertilizantes_kg", "uso_pesticidas_kg",
                        "luc_dluc_opcional_kg_co2", "fator_biomassa_agricola"},
      industrial   |-> {"energia_eletrica_kwh", "energia_termica_mj", "agua_m3"},
      distribuicao |-> {"distancia_km", "quantidade_biomassa_kg"},
      uso          |-> {"quantidade_biomassa_kg", "pci"} ]

SemCampo(d, k) == [x \in DOMAIN d \ {k} |-> d[x]]

\* The record with each absent numeric field written with the given value.
Preenchido(d, campos, valor(_)) ==
    [x \in DOMAIN d \cup campos |-> IF x \in DOMAIN d THEN d[x] ELSE valor(x)]

PadraoZero(k) == Zero

\* 0 for every field but the agricultural factor (100) and the PCI (18).
PadraoDoCampo(k) ==
    CASE k = "fator_biomassa_agricola" -> R(100)
      [] k = "pci"                     -> R(18)
      [] OTHER                         -> Zero

\* C30 as claimed: a phase calculator called with a record that omits numeric
\* fields returns what it returns for the record with those fields at 0.
C30_Original ==
    fase_chamada.tipo = "ok" =>
        fase_retorno =
            CalculadoraDaFase(fatores, fase_chamada.fase,
                Preenchido(fase_chamada.dados,
                           CamposNumericosDaFase[fase_chamada.fase], PadraoZero))

\* C30: a phase calculator called with a record that omits numeric fields
\* returns what it returns for the record with those fields at 0, except
\* that an absent fator_biomassa_agricola counts as 100 and an absent pci as
\* 18; the same holds for each single numeric field taken out of the record.
C30_PadroesDosCampos ==
    fase_chamada.tipo = "ok" =>
        LET fase   == fase_chamada.fase
            campos == CamposNumericosDaFase[fase]
        IN  /\ fase_retorno =
                  CalculadoraDaFase(fatores, fase,
                      Preenchido(fase_chamada.dados, campos, PadraoDoCampo))
            /\ \A k \in campos :
                  CalculadoraDaFase(fatores, fase, SemCampo(fase_chamada.dados, k)) =
                  CalculadoraDaFase(fatores, fase,
                      Put(SemCampo(fase_chamada.dados, k), k, PadraoDoCampo(k)))

\* The use calculator was given a quantity and no PCI: the energy is the
\* quantity times 18.
C30_Witness ==
    /\ ChamouFase("uso")
    /\ "pci" \notin DOMAIN fase_chamada.dados
    /\ Get(fase_chamada.dados, "quantidade_biomassa_kg", Zero) = R(1000)
    /\ fase_retorno.detalhamento.energia_gerada_mj = R(18000)

\* The agricultural calculator was given a quantity and no factor.
C30_WitnessAgricola ==
    /\ ChamouFase("agricola")
    /\ "fator_biomassa_agricola" \notin DOMAIN fase_chamada.dados
    /\ Get(fase_chamada.dados, "quantidade_biomassa_kg", Zero) = R(1000)
    /\ fase_retorno.detalhamento.biomassa = R(100)

====
